---- MODULE Spec2Model ----
(***************************************************************************)
(* Verification model of the AgentNET retrieval core.                      *)
(*                                                                         *)
(*   Spec      the vector index manager of src/src/models/RAG.py           *)
(*             (ensure_vectordb, sync_chroma_from_gcs, index_chunks) and   *)
(*             the id-keyed ingest of src/main.py, driven call by call     *)
(*             against an environment (catalog file, persist directory,    *)
(*             embedding provider, GCS bucket) that changes between calls. *)
(*   SpecRank  score_and_rank_servers of src/src/models/RAG.py applied to  *)
(*             every bounded list of retrieved hits.                       *)
(*   SpecText  sanitize_description and summarize_intent of RAG.py.        *)
(*   SpecChunk build_tool_centric_chunks of RAG.py over bounded catalogs.  *)
(*   SpecChoose ActRunner._choose_tool of src/orchestrator.py.             *)
(*   SpecPlan  Planner.plan_arguments of src/orchestrator.py, step by      *)
(*             step: model request, JSON parsing, schema validation.       *)
(*   SpecFlow  execute_agent_workflow of src/src/models/workflow.py down   *)
(*             to the tool-server connection of notion_agent.py.           *)
(*   SpecHistory the same workflow fed with conversation histories.        *)
(*   SpecOptions add_direct_answer_option applied to search results.       *)
(*   SpecRun   ActRunner.run_async of src/orchestrator.py with MCPClient,  *)
(*             the planner and the Notion bridge, exit path by exit path.  *)
(*   SpecSearch the three search entry points under store and embedding    *)
(*             failures.                                                   *)
(*   SpecThreads two requests of the worker-thread retrieval path with     *)
(*             their steps interleaved.                                    *)
(***************************************************************************)
EXTENDS Integers, Sequences, FiniteSets, TLC

(* ------------------------------ bounds --------------------------------- *)
\* catalog contents are versions 1..MaxVersion; 0 is "file missing/unreadable"
MaxVersion == 3
\* number of ensure_vectordb / ingest calls started in one behaviour
MaxCalls == 2

\* longest list of hits a similarity search returns (k_tools)
MaxHits == 6
\* largest top_servers asked for
MaxTop == 3
\* descriptions are built from at most MaxPieces tags and characters
MaxPieces == 4
\* summarize_intent keeps head[:200]; the model scales the 200 down
HeadLimit == 3
\* a tool has at most MaxParams parameters
MaxParams == 2
\* _choose_tool is given at most MaxTools tools and a task of at most MaxTokens tokens
MaxTools == 2
MaxTokens == 2
\* every model response of at most MaxRaw JSON tokens is tried
MaxRaw == 3
\* catalog links have at most MaxLink character runs
MaxLink == 4
\* the workflow keeps history[-10:]; the model scales the 10 down, and feeds
\* histories of up to HistoryLimit + 1 turns
HistoryLimit == 2
\* a search returns at most MaxResults servers; the direct-answer option is
\* added up to MaxApply times
MaxResults == 3
MaxApply == 3
\* list_tools answers with at most MaxListed tools
MaxListed == 2

Versions == 1..MaxVersion
Workers == {1, 2}
\* the workers that issue calls in the sequential specification
SeqWorkers == {1}

\* number of tool chunks build_tool_centric_chunks yields for a catalog
\* version: 2, 0, 1, 2, ... (a catalog without tools yields no chunk)
ChunkCount(v) == (v + 1) % 3
ChunksOf(v) == {<<v, i>> : i \in 1..ChunkCount(v)}
ChunkIds == UNION {ChunksOf(v) : v \in Versions}

\* the agents of the src/main.py catalog of a version carry the ids 1..n
AgentsOf(v) == 1..ChunkCount(v)
AgentIds == UNION {AgentsOf(v) : v \in Versions}

\* the persisted collection is a bag of chunk entries (add_texts assigns a
\* fresh uuid to every text, so adding a chunk twice stores it twice)
EmptyColl == [c \in ChunkIds |-> 0]
BagAdd(b, S) == [c \in ChunkIds |-> b[c] + (IF c \in S THEN 1 ELSE 0)]
BagOf(S) == BagAdd(EmptyColl, S)

VARIABLES
    catalog,       \* version of the catalog file on disk, 0 = missing
    files,         \* persist_dir holds a "chroma-*" file
    coll,          \* bag of entries in collection COLLECTION_NAME
    health,        \* "ok" | "corrupt" (collection calls raise) | "unloadable" (Chroma(...) raises)
    embedUp,       \* the embedding provider answers
    gcs,           \* [state, version]: the GCS side of sync_chroma_from_gcs
    stamp,         \* content of the fingerprint stamp file, 0 = no stamp
    succeeded,     \* versions for which a rebuild has completed
    calls,         \* calls started so far
    pc,            \* per worker: position inside the call
    force_reindex, \* per worker: argument of the running call
    texts,         \* per worker: catalog version chunked by index_chunks, 0 = none
    indexCalls,    \* per worker: index_chunks invocations in the running call
    result,        \* per worker: "none" | "built" | "opened" | "raised"
    entry,         \* per worker: environment seen when the call started
    events,        \* per worker: what happened inside the running call
    agentStore,    \* src/main.py store: agent id -> catalog version of its entry, 0 = none
    docs,          \* the hits similarity_search returned, best first (their server_name)
    top_servers,   \* argument of score_and_rank_servers
    grouped,       \* the `grouped` dict after the loop of lines 271-278
    ranked,        \* the list score_and_rank_servers returned
    rpc,           \* "off" | "ready" | "ranked"
    desc,          \* a tool description, a sequence of characters
    fallback,      \* the fallback argument of summarize_intent
    clean_desc,    \* what sanitize_description returned for desc
    intent,        \* what summarize_intent returned for desc
    tpc,           \* "off" | "ready" | "sanitized" | "summarized"
    catalog_json,  \* the catalog given to build_tool_centric_chunks: its servers in order
    chunks,        \* the list build_tool_centric_chunks returned
    bpc,           \* "off" | "ready" | "built"
    user_task,     \* the task given to _choose_tool, as lowered_task.split() sees it
    tools,         \* the tool list given to _choose_tool
    chosen,        \* position in tools of the tool _choose_tool returned, 0 = None
    kpc,           \* "off" | "ready" | "chosen"
    tool_schema,   \* the schema given to Planner.plan_arguments
    raw_json,      \* the text _invoke_llm returned, as JSON tokens
    arguments,     \* what _parse_json returned
    llm_calls,     \* requests made to the language model by the running call
    plan_result,   \* how plan_arguments ended: a returned value or a raised error
    ppc,           \* "off" | "ready" | "invoke" | "parse" | "validate" | "done"
    child_link,    \* the catalog link of the selected server
    mode,          \* the mode argument of execute_agent_workflow
    override,      \* notion_mcp_base_url_override
    openai_key,    \* OPENAI_API_KEY is set
    smithery_key,  \* SMITHERY_API_KEY is set
    net,           \* the network calls made so far, in order
    base_url,      \* base_url of execute_mcp_workflow
    server_slug,   \* server_slug of execute_mcp_workflow
    routed,        \* the path execute_agent_workflow took, "direct" | "mcp";
                   \* "mcp_entry" when execute_mcp_workflow was called by itself
    envelope,      \* how the workflow ended: an AgentRunEnvelope or a raised error
    history,       \* the history argument of execute_agent_workflow, <<>> = none
    sent,          \* the notion_instruction handed to execute_mcp_workflow, line by line
    results,       \* the list rag_search returned
    options,       \* the list after the direct-answer option was added
    before,        \* the list the last add_direct_answer_option call was given
    applied,       \* add_direct_answer_option calls made so far
    endpoint,      \* agent_meta["endpoint"], stripped: "" or a URL
    is_notion,     \* _is_notion_agent(agent_meta)
    dry_run,       \* the dry_run argument of ActRunner.run_async
    sdk,           \* the mcp SDK: "none" (not installed) | "noconnector" | "ok"
    conns,         \* the tool-server connections opened so far: [transport, open]
    client,        \* MCPClient._sdk_client as an index into conns, 0 = None
    called,        \* the call_tool invocations made: [name, arguments]
    trace,         \* what the run did so far, in order
    run_result,    \* how run_async ended: a report or a raised error
    apc,           \* position inside run_async
    searcher,      \* the search entry point that is called
    fault,         \* what fails during the similarity search: "none" | "store" | "embedding"
    search_out,    \* how the search call ended: a returned value or a raised error
    spc,           \* "off" | "ready" | "rank" | "done"
    fpc            \* "off" | "ready" | "direct" | "mcp" | "smithery" | "connect" | "run" | "done"

idxVars == <<catalog, files, coll, health, embedUp, gcs, stamp, succeeded, calls,
             pc, force_reindex, texts, indexCalls, result, entry, events, agentStore>>

rankVars == <<docs, top_servers, grouped, ranked, rpc>>

textVars == <<desc, fallback, clean_desc, intent, tpc>>

\* everything outside the index manager
chunkVars == <<catalog_json, chunks, bpc>>

chooseVars == <<user_task, tools, chosen, kpc>>

planVars == <<tool_schema, raw_json, arguments, llm_calls, plan_result, ppc>>

flowVars == <<child_link, mode, override, openai_key, smithery_key, net, base_url,
              server_slug, routed, envelope, history, sent, fpc>>

optionVars == <<results, options, before, applied>>

runVars == <<endpoint, is_notion, dry_run, sdk, conns, client, called, trace, run_result, apc>>

searchVars == <<searcher, fault, search_out, spc>>

otherVars ==
    <<rankVars, textVars, chunkVars, chooseVars, planVars, flowVars, optionVars, runVars,
      searchVars>>

vars == <<idxVars, otherVars>>

storeVars == <<files, coll, health>>
envVars == <<catalog, embedUp, gcs, agentStore>>

NoEntry == [files |-> FALSE, catalog |-> 0, stamp |-> 0, health |-> "ok",
            embedUp |-> TRUE, fresh |-> FALSE, last |-> {}, lastTexts |-> 0]

\* the environment a call starts in; fresh: the collection holds exactly the
\* chunks of the catalog file as it is now; last, lastTexts: what happened in
\* the worker's previous call and the catalog version that call chunked
EntryNow(w) == [files |-> files, catalog |-> catalog, stamp |-> stamp,
                health |-> health, embedUp |-> embedUp,
                fresh |-> (catalog # 0 /\ coll = BagOf(ChunksOf(catalog))),
                last |-> events[w], lastTexts |-> texts[w]]

InitIndex ==
    /\ catalog \in Versions
    /\ files = FALSE
    /\ coll = EmptyColl
    /\ health = "ok"
    /\ embedUp = TRUE
    /\ gcs \in {[state |-> s, version |-> 0] : s \in {"unset", "nocreds", "empty"}}
             \cup {[state |-> "store", version |-> v] : v \in Versions}
    /\ stamp = 0
    /\ succeeded = {}
    /\ calls = 0
    /\ pc = [w \in Workers |-> "idle"]
    /\ force_reindex = [w \in Workers |-> FALSE]
    /\ texts = [w \in Workers |-> 0]
    /\ indexCalls = [w \in Workers |-> 0]
    /\ result = [w \in Workers |-> "none"]
    /\ entry = [w \in Workers |-> NoEntry]
    /\ events = [w \in Workers |-> {}]
    /\ agentStore = [a \in AgentIds |-> 0]

AllIdle == \A w \in Workers : pc[w] \in {"idle", "done"}

(* --------------------------- helpers ----------------------------------- *)
\* chroma_persist_exists(persist_dir)
chroma_persist_exists == files

\* a raise that leaves the call: the exception reaches the caller
Raise(w, ev) ==
    /\ pc' = [pc EXCEPT ![w] = "done"]
    /\ result' = [result EXCEPT ![w] = "raised"]
    /\ events' = [events EXCEPT ![w] = @ \cup {ev}]
    /\ UNCHANGED indexCalls

\* `vectordb, _ = index_chunks(catalog_path, persist_dir)`: enter index_chunks
EnterIndex(w, ev) ==
    /\ pc' = [pc EXCEPT ![w] = "ix_load"]
    /\ indexCalls' = [indexCalls EXCEPT ![w] = @ + 1]
    /\ events' = [events EXCEPT ![w] = @ \cup {ev}]
    /\ UNCHANGED result

\* `return vectordb` with the handle kind k
Return(w, k, ev) ==
    /\ pc' = [pc EXCEPT ![w] = "done"]
    /\ result' = [result EXCEPT ![w] = k]
    /\ events' = [events EXCEPT ![w] = @ \cup {ev}]
    /\ UNCHANGED indexCalls

Goto(w, l) ==
    /\ pc' = [pc EXCEPT ![w] = l]
    /\ UNCHANGED <<indexCalls, result, events>>

(* ------------------- ensure_vectordb (RAG.py 240-259) ------------------ *)
\* search_servers -> ensure_vectordb(catalog, persist_dir, force_reindex=f)
Call(w, f) ==
    /\ pc[w] \in {"idle", "done"}
    /\ UNCHANGED otherVars
    /\ calls < MaxCalls
    /\ calls' = calls + 1
    /\ force_reindex' = [force_reindex EXCEPT ![w] = f]
    /\ texts' = [texts EXCEPT ![w] = 0]
    /\ indexCalls' = [indexCalls EXCEPT ![w] = 0]
    /\ result' = [result EXCEPT ![w] = "none"]
    /\ events' = [events EXCEPT ![w] = {}]
    /\ entry' = [entry EXCEPT ![w] = EntryNow(w)]
    /\ pc' = [pc EXCEPT ![w] = IF f THEN "check" ELSE "sync"]
    /\ UNCHANGED <<storeVars, envVars, stamp, succeeded>>

\* lines 241-242 and 175-237: download the store from GCS when the local
\* directory holds none.  A download that fails part-way (lines 226-231) may
\* leave some files behind.  "nocreds" stands for the three RuntimeErrors raised
\* before the bucket is listed (credentials variable, credentials file,
\* google-cloud-storage import).
sync_chroma_from_gcs(w) ==
    /\ pc[w] = "sync"
    /\ UNCHANGED otherVars
    /\ UNCHANGED <<envVars, stamp, succeeded, calls, force_reindex, texts, entry>>
    /\ IF gcs.state = "unset" \/ chroma_persist_exists
       THEN /\ Goto(w, "check")
            /\ UNCHANGED storeVars
       ELSE \/ /\ gcs.state = "nocreds"
               /\ Raise(w, "sync_raised")
               /\ UNCHANGED storeVars
            \/ /\ gcs.state = "empty"
               /\ Raise(w, "sync_raised")
               /\ UNCHANGED storeVars
            \/ /\ gcs.state = "store"
               /\ files' = TRUE
               /\ coll' = BagOf(ChunksOf(gcs.version))
               /\ health' = "ok"
               /\ pc' = [pc EXCEPT ![w] = "check"]
               /\ events' = [events EXCEPT ![w] = @ \cup {"synced"}]
               /\ UNCHANGED <<indexCalls, result>>
            \/ /\ gcs.state = "store"
               /\ Raise(w, "sync_raised")
               /\ \E left \in BOOLEAN :
                     IF left
                     THEN files' = TRUE /\ coll' = EmptyColl /\ health' = "corrupt"
                     ELSE UNCHANGED storeVars

\* mutant: the negation of the existence test is lost
RebuildFirst_exists(f) == f \/ chroma_persist_exists

\* mutant: only force_reindex leads to the rebuild
RebuildFirst_forceOnly(f) == f

\* line 244: `if force_reindex or not chroma_persist_exists(persist_dir)`
RebuildFirst(f) == f \/ ~chroma_persist_exists

ensure_check(w) ==
    /\ pc[w] = "check"
    /\ UNCHANGED otherVars
    /\ UNCHANGED <<storeVars, envVars, stamp, succeeded, calls, force_reindex, texts, entry>>
    /\ IF RebuildFirst(force_reindex[w])
       THEN EnterIndex(w, IF force_reindex[w] THEN "forced" ELSE "absent")
       ELSE Goto(w, "load")

\* lines 164-172: try_load_vectordb returns None when Chroma(...) raises
try_load_vectordb == IF health = "unloadable" THEN "None" ELSE "vectordb"

\* lines 248-251
ensure_load(w) ==
    /\ pc[w] = "load"
    /\ UNCHANGED otherVars
    /\ UNCHANGED <<storeVars, envVars, stamp, succeeded, calls, force_reindex, texts, entry>>
    /\ IF try_load_vectordb = "None"
       THEN EnterIndex(w, "load_none")
       ELSE Goto(w, "probe")

\* line 254: vectordb.similarity_search("probe", k=1) embeds the query and
\* reads the collection; either can raise
ProbeRaises == health # "ok" \/ ~embedUp

\* mutant: the probe's exception leaves ensure_vectordb
ProbeExcept_reraise(w) == Raise(w, "probe_raised")

\* lines 255-257: `except Exception:` rebuild and return the rebuilt handle
ProbeExcept(w) == EnterIndex(w, "probe_raised")

\* lines 253-259
ensure_probe(w) ==
    /\ pc[w] = "probe"
    /\ UNCHANGED otherVars
    /\ UNCHANGED <<storeVars, envVars, stamp, succeeded, calls, force_reindex, texts, entry>>
    /\ IF ProbeRaises
       THEN ProbeExcept(w)
       ELSE Return(w, "opened", "reuse")

(* --------------------- index_chunks (RAG.py 111-151) ------------------- *)
\* mutant: a catalog that cannot be loaded is taken for an empty one
LoadExcept_empty(w) == Goto(w, "ix_delete")

\* line 112: load_json raising, nothing catches it inside index_chunks
LoadExcept(w) == Raise(w, "catalog_raised")

\* lines 112-125: load_json and build_tool_centric_chunks; a missing or
\* unparseable catalog raises before the store is touched
index_load(w) ==
    /\ pc[w] = "ix_load"
    /\ UNCHANGED otherVars
    /\ UNCHANGED <<storeVars, envVars, stamp, succeeded, calls, force_reindex, entry>>
    /\ IF catalog = 0
       THEN LoadExcept(w) /\ UNCHANGED texts
       ELSE Goto(w, "ix_delete") /\ texts' = [texts EXCEPT ![w] = catalog]

\* lines 134-135: `except Exception: pass` around open-and-delete
DeleteExcept(w) ==
    /\ pc' = [pc EXCEPT ![w] = "ix_add"]
    /\ events' = [events EXCEPT ![w] = @ \cup {"delete_raised"}]
    /\ UNCHANGED <<indexCalls, result>>

\* lines 127-135: open the existing collection and delete it; the open raises
\* on an unloadable store, and delete_collection itself can raise
index_delete(w) ==
    /\ pc[w] = "ix_delete"
    /\ UNCHANGED otherVars
    /\ UNCHANGED <<envVars, stamp, succeeded, calls, force_reindex, texts, entry>>
    /\ IF health = "unloadable"
       THEN DeleteExcept(w) /\ UNCHANGED storeVars
       ELSE \/ /\ coll' = EmptyColl
               /\ health' = "ok"
               /\ UNCHANGED files
               /\ Goto(w, "ix_add")
            \/ /\ DeleteExcept(w)
               /\ UNCHANGED storeVars

\* `return vectordb, len(texts)` (line 151): back through ensure_vectordb
\* (lines 245-246, 250-251, 256-257) to its caller, or back into the
\* stamp-keeping ensure_index, which has the stamp still to write
IndexReturn(w, ev) ==
    IF "stamped" \in events[w]
    THEN /\ pc' = [pc EXCEPT ![w] = "st_stamp"]
         /\ events' = [events EXCEPT ![w] = @ \cup {ev}]
         /\ UNCHANGED <<indexCalls, result>>
    ELSE Return(w, "built", ev)

\* mutant: the add's exception is swallowed and the handle returned
AddExcept_swallow(w, ev) == Return(w, "built", ev)

\* line 144 raising: nothing catches it inside index_chunks
AddExcept(w, ev) == Raise(w, ev)

\* mutant: `except Exception` instead of `except AttributeError`
PersistExcept_swallow(w) == IndexReturn(w, "persist_raised")

\* lines 145-150: only an AttributeError of persist() is handled
PersistExcept(w) == Raise(w, "persist_raised")

\* lines 137-144: open (get-or-create) the collection and add every text;
\* add_texts embeds all texts before it writes any
index_add(w) ==
    /\ pc[w] = "ix_add"
    /\ UNCHANGED otherVars
    /\ UNCHANGED <<envVars, stamp, calls, force_reindex, texts, entry, files>>
    /\ IF health = "unloadable"
       THEN AddExcept(w, "open_raised") /\ UNCHANGED <<coll, health, succeeded>>
       ELSE IF ChunksOf(texts[w]) = {}
       THEN /\ IndexReturn(w, "built_empty")
            /\ succeeded' = succeeded \cup {texts[w]}
            /\ UNCHANGED <<coll, health>>
       ELSE IF ~embedUp
       THEN AddExcept(w, "embed_raised") /\ UNCHANGED <<coll, health, succeeded>>
       ELSE IF health = "corrupt"
       THEN AddExcept(w, "add_raised") /\ UNCHANGED <<coll, health, succeeded>>
       ELSE /\ coll' = BagAdd(coll, ChunksOf(texts[w]))
            /\ Goto(w, "ix_persist")
            /\ UNCHANGED <<health, succeeded>>

\* lines 145-151: persist writes the store files; an AttributeError falls back
\* to the client's persist, any other error propagates
index_persist(w) ==
    /\ pc[w] = "ix_persist"
    /\ UNCHANGED otherVars
    /\ UNCHANGED <<envVars, stamp, calls, force_reindex, texts, entry, coll, health>>
    /\ \/ /\ files' = TRUE
          /\ succeeded' = succeeded \cup {texts[w]}
          /\ IndexReturn(w, "persisted")
       \/ /\ PersistExcept(w)
          /\ UNCHANGED <<files, succeeded>>

\* main(), `ingest` command (lines 408-423): index_chunks called directly
ingest_command(w) ==
    /\ pc[w] \in {"idle", "done"}
    /\ UNCHANGED otherVars
    /\ calls < MaxCalls
    /\ calls' = calls + 1
    /\ force_reindex' = [force_reindex EXCEPT ![w] = TRUE]
    /\ texts' = [texts EXCEPT ![w] = 0]
    /\ indexCalls' = [indexCalls EXCEPT ![w] = 1]
    /\ result' = [result EXCEPT ![w] = "none"]
    /\ events' = [events EXCEPT ![w] = {"ingest"}]
    /\ entry' = [entry EXCEPT ![w] = EntryNow(w)]
    /\ pc' = [pc EXCEPT ![w] = "ix_load"]
    /\ UNCHANGED <<storeVars, envVars, stamp, succeeded>>

callVars == <<calls, pc, force_reindex, texts, indexCalls, result, entry, events>>

(* ------------------------ _ingest (src/main.py 114-139) ---------------- *)
\* load the catalog, exit when it is missing or lists no agent, then
\* delete(ids=ids), add_texts(..., ids=ids) and persist: only the entries whose
\* ids occur in the catalog are replaced
main_ingest(w) ==
    /\ pc[w] \in {"idle", "done"}
    /\ UNCHANGED otherVars
    /\ calls < MaxCalls
    /\ calls' = calls + 1
    /\ catalog # 0
    /\ AgentsOf(catalog) # {}
    /\ embedUp
    /\ agentStore' = [a \in AgentIds |->
                        IF a \in AgentsOf(catalog) THEN catalog ELSE agentStore[a]]
    /\ pc' = [pc EXCEPT ![w] = "done"]
    /\ result' = [result EXCEPT ![w] = "ingested"]
    /\ events' = [events EXCEPT ![w] = {"ingest"}]
    /\ texts' = [texts EXCEPT ![w] = catalog]
    /\ indexCalls' = [indexCalls EXCEPT ![w] = 0]
    /\ UNCHANGED <<storeVars, catalog, embedUp, gcs, stamp, succeeded,
                   force_reindex, entry>>

(* -------- ensure_index with a fingerprint stamp (spec 4.2) ------------- *)
\* The stamp helpers and the ensure_vectordb that uses them are exercised by
\* src/tests/unit/test_rag.py but are not part of src/src/models/RAG.py; this
\* section follows section 4.2 of the specification and calls the
\* index_chunks modelled above for the embed-and-persist step.

\* fingerprint of the catalog file, 0 for a file that does not exist
compute_content_hash == catalog
\* content of the stamp file, 0 when there is none
read_hash_stamp == stamp
is_persist_dir_empty == ~files

ensure_index(w, f) ==
    /\ pc[w] \in {"idle", "done"}
    /\ UNCHANGED otherVars
    /\ calls < MaxCalls
    /\ calls' = calls + 1
    /\ force_reindex' = [force_reindex EXCEPT ![w] = f]
    /\ texts' = [texts EXCEPT ![w] = 0]
    /\ indexCalls' = [indexCalls EXCEPT ![w] = 0]
    /\ result' = [result EXCEPT ![w] = "none"]
    /\ events' = [events EXCEPT ![w] = {"stamped"}]
    /\ entry' = [entry EXCEPT ![w] = EntryNow(w)]
    /\ pc' = [pc EXCEPT ![w] = "st_check"]
    /\ UNCHANGED <<storeVars, envVars, stamp, succeeded>>

\* step 2: rebuild when forced, when the store is absent or empty, or when the
\* fingerprints differ
ensure_index_check(w) ==
    /\ pc[w] = "st_check"
    /\ UNCHANGED otherVars
    /\ UNCHANGED <<storeVars, envVars, stamp, succeeded, calls, force_reindex, texts, entry>>
    /\ IF force_reindex[w] \/ is_persist_dir_empty \/ compute_content_hash # read_hash_stamp
       THEN EnterIndex(w, "rebuild")
       ELSE Goto(w, "st_probe")

\* step 3: open the collection and probe it; any error leads to the rebuild
ensure_index_probe(w) ==
    /\ pc[w] = "st_probe"
    /\ UNCHANGED otherVars
    /\ UNCHANGED <<storeVars, envVars, stamp, succeeded, calls, force_reindex, texts, entry>>
    /\ IF health # "ok" \/ ~embedUp
       THEN EnterIndex(w, "probe_raised")
       ELSE Return(w, "opened", "reuse")

\* end of step 2: write the fingerprint computed in step 1 and return
write_hash_stamp(w) ==
    /\ pc[w] = "st_stamp"
    /\ UNCHANGED otherVars
    /\ stamp' = entry[w].catalog
    /\ Return(w, "built", "stamp_written")
    /\ UNCHANGED <<storeVars, envVars, succeeded, calls, force_reindex, texts, entry>>

(* ------------- score_and_rank_servers (RAG.py 262-313) ----------------- *)
ServerNames == {"A", "B", "C"}
\* a hit whose metadata has no server_name key (or no metadata at all)
Missing == "<missing>"
\* a hit is represented by the server_name entry of its metadata
HitValues == ServerNames \cup {"", Missing}

RECURSIVE Gcd(_, _)
Gcd(a, b) == IF b = 0 THEN a ELSE Gcd(b, a % b)
RECURSIVE LcmUpTo(_)
LcmUpTo(n) == IF n <= 1 THEN 1 ELSE (LcmUpTo(n - 1) * n) \div Gcd(LcmUpTo(n - 1), n)
\* scores are rationals over the common denominator Den; the double sums of
\* the code order and round the same way for lists of up to 9 hits
Den == LcmUpTo(MaxHits)

\* lines 272-273: `(doc.metadata or {}).get("server_name", "")`
MetaGet(doc) == IF doc = Missing THEN "" ELSE doc

\* line 276: `weight = 1.0 / rank`
Weight(rank) == Den \div rank

NoGroups == [order |-> <<>>, score |-> [n \in ServerNames |-> 0],
             count |-> [n \in ServerNames |-> 0]]

InOrder(g, name) == \E i \in 1..Len(g.order) : g.order[i] = name

\* mutant: the rank restarts inside every server's group
GroupStep_groupRank(g, rank, doc) ==
    LET name == MetaGet(doc) IN
    IF name = "" THEN g
    ELSE [order |-> IF InOrder(g, name) THEN g.order ELSE Append(g.order, name),
          score |-> [g.score EXCEPT ![name] = @ + Weight(g.count[name] + 1)],
          count |-> [g.count EXCEPT ![name] = @ + 1]]

\* lines 272-278, one iteration: skip a hit without server_name, else add the
\* weight to its server (dict keys keep their insertion order)
GroupStep(g, rank, doc) ==
    LET name == MetaGet(doc) IN
    IF name = "" THEN g
    ELSE [order |-> IF InOrder(g, name) THEN g.order ELSE Append(g.order, name),
          score |-> [g.score EXCEPT ![name] = @ + Weight(rank)],
          count |-> [g.count EXCEPT ![name] = @ + 1]]

RECURSIVE GroupLoop(_, _)
GroupLoop(ds, n) ==
    IF n = 0 THEN NoGroups ELSE GroupStep(GroupLoop(ds, n - 1), n, ds[n])

IsNamed(doc) == MetaGet(doc) # ""

\* mutant: the hits without server_name are dropped before they are numbered
Grouped_filterFirst(ds) == GroupLoop(SelectSeq(ds, IsNamed), Len(SelectSeq(ds, IsNamed)))

\* lines 270-278: `for rank, doc in enumerate(docs, start=1)`
Grouped(ds) == GroupLoop(ds, Len(ds))

\* mutant: a server is placed before the servers of equal score
InsertDesc_unstable(s, x, sc) ==
    LET k == Cardinality({i \in 1..Len(s) : sc[s[i]] > sc[x]}) IN
    SubSeq(s, 1, k) \o <<x>> \o SubSeq(s, k + 1, Len(s))

\* stable descending order: x goes behind every server scoring at least as much
InsertDesc(s, x, sc) ==
    LET k == Cardinality({i \in 1..Len(s) : sc[s[i]] >= sc[x]}) IN
    SubSeq(s, 1, k) \o <<x>> \o SubSeq(s, k + 1, Len(s))

RECURSIVE SortedDesc(_, _, _)
\* line 294: `sorted(grouped.items(), key=score, reverse=True)`, which keeps the
\* items of equal key in their original order
SortedDesc(order, n, sc) ==
    IF n = 0 THEN <<>> ELSE InsertDesc(SortedDesc(order, n - 1, sc), order[n], sc)

\* mutant: one server too few is kept
Slice_short(s, n) == SubSeq(s, 1, IF n - 1 < Len(s) THEN n - 1 ELSE Len(s))

\* line 294: `[:top_servers]` for top_servers >= 0
Slice(s, n) == SubSeq(s, 1, IF n < Len(s) THEN n ELSE Len(s))

\* mutant: the score is cut off after four decimals
Round4_truncate(num) == (num * 10000) \div Den

\* line 309: `round(score, 4)` in units of 0.0001, halves to the even digit
Round4(num) ==
    LET q == (num * 10000) \div Den
        r == (num * 10000) % Den
    IN  IF 2 * r < Den THEN q
        ELSE IF 2 * r > Den THEN q + 1
        ELSE IF q % 2 = 0 THEN q ELSE q + 1

\* lines 294-313 (child_link and why left out)
Results(g, top) ==
    LET kept == Slice(SortedDesc(g.order, Len(g.order), g.score), top) IN
    [i \in 1..Len(kept) |-> [server |-> kept[i], score |-> Round4(g.score[kept[i]])]]

RECURSIVE SeqsUpTo(_)
SeqsUpTo(n) ==
    IF n = 0 THEN {<<>>}
    ELSE SeqsUpTo(n - 1) \cup {Append(s, h) : s \in {t \in SeqsUpTo(n - 1) : Len(t) = n - 1},
                                             h \in HitValues}

RankOff ==
    /\ docs = <<>>
    /\ top_servers = 0
    /\ grouped = NoGroups
    /\ ranked = <<>>
    /\ rpc = "off"

InitRank ==
    /\ docs \in SeqsUpTo(MaxHits)
    /\ top_servers = 0
    /\ grouped = NoGroups
    /\ ranked = <<>>
    /\ rpc = "ready"

score_and_rank_servers(top) ==
    /\ rpc = "ready"
    /\ top_servers' = top
    /\ grouped' = Grouped(docs)
    /\ ranked' = Results(Grouped(docs), top)
    /\ rpc' = "ranked"
    /\ UNCHANGED <<docs, idxVars, textVars, chunkVars, chooseVars, planVars, flowVars, optionVars, runVars, searchVars>>

(* ------------------- description text (RAG.py 25-54) -------------------- *)

\* strings are sequences of characters; "a" stands for any character that is
\* not markup, whitespace or sentence punctuation
Whitespace == {" "}
Punctuation == {"."}

\* building blocks of the descriptions fed to the text functions
Pieces == {<<"<", "a", ">">>, <<"<", "/", "a", ">">>, <<"<", "a", "/", ">">>,
           <<"a">>, <<" ">>, <<".">>, <<"<">>, <<">">>, <<"/">>}

RECURSIVE Descs(_)
Descs(n) ==
    IF n = 0 THEN {<<>>}
    ELSE Descs(n - 1) \cup {d \o p : d \in Descs(n - 1), p \in Pieces}

\* "<p>Hello <b>world</b></p>"
HelloWorld == <<"<", "a", ">", "a", " ", "<", "a", ">", "a", "<", "/", "a", ">",
                "<", "/", "a", ">">>

\* index of the first ">" at or after i, 0 when there is none
FirstGt(s, i) ==
    LET G == {p \in i..Len(s) : s[p] = ">"}
    IN IF G = {} THEN 0 ELSE CHOOSE p \in G : \A q \in G : p <= q

\* _TAG_BLOCK_RE  <[^>]+>(.*?)</[^>]+>  tried at position i: the index of the
\* last character of the match, 0 when it does not match there
TAG_BLOCK_RE(s, i) ==
    IF s[i] # "<" THEN 0
    ELSE LET p == FirstGt(s, i + 1)
         IN IF p = 0 \/ p = i + 1 THEN 0
            ELSE LET Closers == {q \in (p + 1)..(Len(s) - 3) :
                                   /\ s[q] = "<"
                                   /\ s[q + 1] = "/"
                                   /\ s[q + 2] # ">"
                                   /\ FirstGt(s, q + 3) # 0}
                 IN IF Closers = {} THEN 0
                    ELSE FirstGt(s, (CHOOSE q \in Closers : \A r \in Closers : q <= r) + 3)

\* _TAG_SINGLE_RE  <[^>/]+(?:/?)>  tried at position i, likewise
TAG_SINGLE_RE(s, i) ==
    IF s[i] # "<" THEN 0
    ELSE LET Stops == {p \in (i + 1)..Len(s) : s[p] \in {">", "/"}}
         IN IF Stops = {} THEN 0
            ELSE LET j == CHOOSE p \in Stops : \A q \in Stops : p <= q
                 IN IF j = i + 1 THEN 0
                    ELSE IF s[j] = ">" THEN j
                    ELSE IF j + 1 <= Len(s) /\ s[j + 1] = ">" THEN j + 1
                    ELSE 0

MatchEnd(re, s, i) == IF re = "block" THEN TAG_BLOCK_RE(s, i) ELSE TAG_SINGLE_RE(s, i)

\* re.sub(" ", s): leftmost non-overlapping matches become one space
RECURSIVE Sub(_, _, _)
Sub(re, s, i) ==
    IF i > Len(s) THEN <<>>
    ELSE IF MatchEnd(re, s, i) = 0 THEN <<s[i]>> \o Sub(re, s, i + 1)
    ELSE <<" ">> \o Sub(re, s, MatchEnd(re, s, i) + 1)

\* re.sub(r"\s+", " ", s)
RECURSIVE CollapseWs(_, _)
CollapseWs(s, i) ==
    IF i > Len(s) THEN <<>>
    ELSE IF s[i] \notin Whitespace THEN <<s[i]>> \o CollapseWs(s, i + 1)
    ELSE IF i > 1 /\ s[i - 1] \in Whitespace THEN CollapseWs(s, i + 1)
    ELSE <<" ">> \o CollapseWs(s, i + 1)

\* str.strip()
Strip(s) ==
    LET Ink == {p \in 1..Len(s) : s[p] \notin Whitespace}
    IN IF Ink = {} THEN <<>>
       ELSE SubSeq(s, CHOOSE p \in Ink : \A q \in Ink : p <= q,
                      CHOOSE p \in Ink : \A q \in Ink : p >= q)

BlockPass(d) == Sub("block", d, 1)

sanitize_description(d) ==
    IF d = <<>> THEN <<>>
    ELSE Strip(CollapseWs(Sub("single", BlockPass(d), 1), 1))

\* re.split(r"(?<=[.!?])\s+", desc, maxsplit=1)[0]
FirstSentence(d) ==
    LET Cuts == {i \in 2..Len(d) : d[i] \in Whitespace /\ d[i - 1] \in Punctuation}
    IN IF Cuts = {} THEN d
       ELSE SubSeq(d, 1, (CHOOSE i \in Cuts : \A j \in Cuts : i <= j) - 1)

head_whole(d) == d

head(d) == IF FirstSentence(d) = <<>> THEN d ELSE FirstSentence(d)

summarize_intent(d, fb) ==
    IF d = <<>> THEN fb
    ELSE Strip(Slice(head(d), HeadLimit))

Fallbacks == {<<"X">>, [i \in 1..(HeadLimit + 1) |-> "Y"]}

TextOff ==
    /\ desc = <<>>
    /\ fallback = <<>>
    /\ clean_desc = <<>>
    /\ intent = <<>>
    /\ tpc = "off"

InitText ==
    /\ desc \in Descs(MaxPieces) \cup {HelloWorld}
    /\ fallback \in Fallbacks
    /\ clean_desc = <<>>
    /\ intent = <<>>
    /\ tpc = "ready"

call_sanitize_description ==
    /\ tpc = "ready"
    /\ clean_desc' = sanitize_description(desc)
    /\ tpc' = "sanitized"
    /\ UNCHANGED <<desc, fallback, intent, idxVars, rankVars, chunkVars, chooseVars, planVars, flowVars, optionVars, runVars, searchVars>>

call_summarize_intent ==
    /\ tpc = "sanitized"
    /\ intent' = summarize_intent(desc, fallback)
    /\ tpc' = "summarized"
    /\ UNCHANGED <<desc, fallback, clean_desc, idxVars, rankVars, chunkVars, chooseVars, planVars, flowVars, optionVars, runVars, searchVars>>

(* ------------------ chunk builder (RAG.py 57-103) ----------------------- *)

\* a key the JSON object does not have, and JSON null
Absent == <<"<absent>">>
None == <<"<None>">>

\* dict.get(key, default) and the `x or ""` idiom on text values
Get(v, default) == IF v = Absent THEN default ELSE v
OrEmpty(v) == IF v \in {Absent, None} THEN <<>> ELSE v

\* the values a "required" flag takes in a catalog: the booleans, a non-empty
\* string, the number 1, or no flag at all
Flags == {"True", "False", "'yes'", "1", "<absent>"}
Truthy(flag) == flag \in {"True", "'yes'", "1"}

\* `param.get("required") is True` relaxed to truthiness
IsRequired_truthy(flag) == Truthy(flag)

\* param.get("required") is True
IsRequired(flag) == flag = "True"

DefaultFallback == <<"G">>

ParamValues == [name : {<<"p">>, <<" ", "q", " ">>, Absent}, required : Flags]

RECURSIVE ParamLists(_)
ParamLists(n) ==
    IF n = 0 THEN {<<>>}
    ELSE ParamLists(n - 1) \cup {Append(ps, p) : ps \in {l \in ParamLists(n - 1) : Len(l) = n - 1},
                                                 p \in ParamValues}

\* tools that vary in what names them, and tools that vary in their parameters
ToolValues ==
    [name : {Absent, <<>>, <<" ">>, <<"T">>},
     slug : {<<>>, <<"t">>},
     description : {None, <<"<", "a", "/", ">", "a", ".", " ", "a">>},
     parameters : {<<>>}]
    \cup [name : {<<"T">>}, slug : {<<"t">>}, description : {None},
          parameters : ParamLists(MaxParams)]

PlainTool == [name |-> <<"U">>, slug |-> <<"u">>, description |-> <<"a">>,
              parameters |-> <<[name |-> <<"p">>, required |-> "True"]>>]

PlainServer == [key |-> <<"k", "2">>, name |-> <<"S", "2">>, tools |-> <<PlainTool>>]

ServerValues == [key : {<<"k">>},
                 name : {Absent, None, <<>>, <<"S">>},
                 tools : {<<>>} \cup {<<t>> : t \in ToolValues}
                               \cup {<<t, PlainTool>> : t \in ToolValues}]

Catalogs == {<<>>} \cup {<<s>> : s \in ServerValues} \cup {<<s, PlainServer>> : s \in ServerValues}

\* lines 71-75
RequiredParams(params) ==
    LET req == SelectSeq(params, LAMBDA p : IsRequired(p.required))
    IN [i \in 1..Len(req) |-> Strip(OrEmpty(req[i].name))]

\* render_signature, lines 77-82
render_signature(param) ==
    [name |-> IF Strip(OrEmpty(param.name)) = <<>> THEN <<"unnamed">>
              ELSE Strip(OrEmpty(param.name)),
     required |-> IF Truthy(param.required) THEN "required" ELSE "optional"]

\* lines 64-102 for one tool of one server
ToolChunkOf(srv, tool) ==
    LET server_name == Get(srv.name, srv.key)
        tool_name == Strip(OrEmpty(tool.name))
        tool_slug == Strip(OrEmpty(tool.slug))
        clean == sanitize_description(Strip(OrEmpty(tool.description)))
        summary == summarize_intent(clean, DefaultFallback)
        shown == IF tool_name # <<>> THEN tool_name ELSE tool_slug
    IN [server_name |-> server_name,
        tool_name |-> shown,
        tool_slug |-> tool_slug,
        tool_desc |-> clean,
        required_params |-> RequiredParams(tool.parameters),
        all_params |-> tool.parameters,
        text |-> [server |-> server_name,
                  tool |-> shown,
                  use_for |-> IF summary # <<>> THEN summary ELSE DefaultFallback,
                  params |-> [i \in 1..Len(tool.parameters) |->
                                 render_signature(tool.parameters[i])]]]

ServerChunks(srv) == [j \in 1..Len(srv.tools) |-> ToolChunkOf(srv, srv.tools[j])]

RECURSIVE build_tool_centric_chunks(_, _)
build_tool_centric_chunks(cat, i) ==
    IF i > Len(cat) THEN <<>>
    ELSE ServerChunks(cat[i]) \o build_tool_centric_chunks(cat, i + 1)

ChunkOff ==
    /\ catalog_json = <<>>
    /\ chunks = <<>>
    /\ bpc = "off"

InitChunk ==
    /\ catalog_json \in Catalogs
    /\ chunks = <<>>
    /\ bpc = "ready"

call_build_tool_centric_chunks ==
    /\ bpc = "ready"
    /\ chunks' = build_tool_centric_chunks(catalog_json, 1)
    /\ bpc' = "built"
    /\ UNCHANGED <<catalog_json, idxVars, rankVars, textVars, chooseVars, planVars, flowVars, optionVars, runVars, searchVars>>

(* ----------------- tool selection (orchestrator.py 331-358) ------------- *)

\* tool names, descriptions and task tokens are sequences of character runs:
\* the action keywords, their upper-case spellings and filler runs
LowerRun(r) ==
    CASE r = "CREATE" -> "create"
      [] r = "PLAN" -> "plan"
      [] r = "USER" -> "user"
      [] OTHER -> r

\* str.lower()
Lower(s) == [i \in 1..Len(s) |-> LowerRun(s[i])]

\* needle in hay
Contains(hay, needle) ==
    \E i \in 0..(Len(hay) - Len(needle)) : SubSeq(hay, i + 1, i + Len(needle)) = needle

Keywords == <<<<"create">>, <<"plan">>, <<"page">>, <<"write">>, <<"generate">>>>

FastPathToken == <<"create", ":", "page", "s">>

ToolNames == {None, <<"x">>, <<"plan">>, <<"CREATE", ":", "page", "s">>, <<"page", "s">>}
ToolDescriptions == {None, <<"x">>, <<"PLAN", " ", "s">>}
TaskTokens == {<<"x">>, <<"PLAN">>, <<"s">>}

ToolEntries == [name : ToolNames, description : ToolDescriptions]

RECURSIVE ListsOf(_, _)
ListsOf(S, n) ==
    IF n = 0 THEN {<<>>}
    ELSE ListsOf(S, n - 1) \cup {Append(l, x) : l \in {k \in ListsOf(S, n - 1) : Len(k) = n - 1},
                                                x \in S}

\* lines 345-349: the keyword part of a tool's score
RECURSIVE KeywordScore(_, _, _)
KeywordScore(name, description, k) ==
    IF k > Len(Keywords) THEN 0
    ELSE (IF Contains(name, Keywords[k]) THEN 2 ELSE 0)
         + (IF Contains(description, Keywords[k]) THEN 1 ELSE 0)
         + KeywordScore(name, description, k + 1)

\* lines 351-354: if token in name ... elif token in description
TokenPoints(name, description, token) ==
    IF Contains(name, token) THEN 2
    ELSE IF Contains(description, token) THEN 1
    ELSE 0

\* lines 350-354 over lowered_task.split()
RECURSIVE TokenScore(_, _, _, _)
TokenScore(name, description, tokens, t) ==
    IF t > Len(tokens) THEN 0
    ELSE TokenPoints(name, description, tokens[t]) + TokenScore(name, description, tokens, t + 1)

\* lines 342-354
ToolScore(tool, task) ==
    KeywordScore(Lower(OrEmpty(tool.name)), Lower(OrEmpty(tool.description)), 1)
    + TokenScore(Lower(OrEmpty(tool.name)), Lower(OrEmpty(tool.description)),
                 [t \in 1..Len(task) |-> Lower(task[t])], 1)

\* `score >= best_score`: a later tool with an equal score replaces the best
Better_orEqual(score, best_score) == score >= best_score

\* line 355
Better(score, best_score) == score > best_score

\* lines 339-357: the position of best_tool after tools i.. are scored, 0 for None
RECURSIVE BestLoop(_, _, _, _, _)
BestLoop(tls, task, i, best_score, best_tool) ==
    IF i > Len(tls) THEN best_tool
    ELSE IF Better(ToolScore(tls[i], task), best_score)
         THEN BestLoop(tls, task, i + 1, ToolScore(tls[i], task), i)
    ELSE BestLoop(tls, task, i + 1, best_score, best_tool)

\* line 337
HasFastPathToken(tool) == Contains(Lower(OrEmpty(tool.name)), FastPathToken)

\* the fast path taking the last marked tool instead of the first
FastPath_last(tls) ==
    LET F == {i \in 1..Len(tls) : HasFastPathToken(tls[i])}
    IN IF F = {} THEN 0 ELSE CHOOSE i \in F : \A j \in F : i >= j

\* lines 335-338: the position of the tool the first loop returns, 0 if none
FastPath(tls) ==
    LET F == {i \in 1..Len(tls) : HasFastPathToken(tls[i])}
    IN IF F = {} THEN 0 ELSE CHOOSE i \in F : \A j \in F : i <= j

\* _choose_tool: the position of the returned tool in the list, 0 for None
choose_tool(task, tls) ==
    IF tls = <<>> THEN 0
    ELSE IF FastPath(tls) # 0 THEN FastPath(tls)
    ELSE IF BestLoop(tls, task, 1, -1, 0) # 0 THEN BestLoop(tls, task, 1, -1, 0)
    ELSE 1

ChooseOff ==
    /\ user_task = <<>>
    /\ tools = <<>>
    /\ chosen = 0
    /\ kpc = "off"

InitChoose ==
    /\ user_task \in ListsOf(TaskTokens, MaxTokens)
    /\ tools \in ListsOf(ToolEntries, MaxTools)
    /\ chosen = 0
    /\ kpc = "ready"

call_choose_tool ==
    /\ kpc = "ready"
    /\ chosen' = choose_tool(user_task, tools)
    /\ kpc' = "chosen"
    /\ UNCHANGED <<user_task, tools, idxVars, rankVars, textVars, chunkVars, planVars, flowVars, optionVars, runVars, searchVars>>

(* ------------- argument planner (orchestrator.py 130-187) --------------- *)

\* a model response is a sequence of JSON tokens: punctuation, three quoted
\* strings, a number, and text that is no JSON token at all
StringTokens == {"title", "content", "s"}
JsonTokens == {"{", "}", "[", "]", ":", ","} \cup StringTokens \cup {"1", "junk"}

\* JSON values as json.loads builds them
Str(x) == [t |-> "string", v |-> x]
Num == [t |-> "number"]
Arr(items) == [t |-> "array", items |-> items]
Obj(members) == [t |-> "object", members |-> members]

ParseFail == [ok |-> FALSE]
Parsed(v, n) == [ok |-> TRUE, val |-> v, next |-> n]

\* dict insertion: a repeated key keeps its place and takes the later value
Put(members, k, v) ==
    IF \E i \in 1..Len(members) : members[i].k = k
    THEN [i \in 1..Len(members) |-> IF members[i].k = k THEN [k |-> k, v |-> v] ELSE members[i]]
    ELSE Append(members, [k |-> k, v |-> v])

RECURSIVE ParseValue(_, _)
RECURSIVE ParseItems(_, _, _)
RECURSIVE ParseMembers(_, _, _)

ParseValue(tk, i) ==
    IF i > Len(tk) THEN ParseFail
    ELSE IF tk[i] \in StringTokens THEN Parsed(Str(tk[i]), i + 1)
    ELSE IF tk[i] = "1" THEN Parsed(Num, i + 1)
    ELSE IF tk[i] = "["
         THEN IF i + 1 <= Len(tk) /\ tk[i + 1] = "]" THEN Parsed(Arr(<<>>), i + 2)
              ELSE ParseItems(tk, i + 1, <<>>)
    ELSE IF tk[i] = "{"
         THEN IF i + 1 <= Len(tk) /\ tk[i + 1] = "}" THEN Parsed(Obj(<<>>), i + 2)
              ELSE ParseMembers(tk, i + 1, <<>>)
    ELSE ParseFail

ParseItems(tk, i, acc) ==
    LET r == ParseValue(tk, i)
    IN IF ~r.ok \/ r.next > Len(tk) THEN ParseFail
       ELSE IF tk[r.next] = "," THEN ParseItems(tk, r.next + 1, Append(acc, r.val))
       ELSE IF tk[r.next] = "]" THEN Parsed(Arr(Append(acc, r.val)), r.next + 1)
       ELSE ParseFail

ParseMembers(tk, i, acc) ==
    IF i + 1 > Len(tk) \/ tk[i] \notin StringTokens \/ tk[i + 1] # ":" THEN ParseFail
    ELSE LET r == ParseValue(tk, i + 2)
         IN IF ~r.ok \/ r.next > Len(tk) THEN ParseFail
            ELSE IF tk[r.next] = "," THEN ParseMembers(tk, r.next + 1, Put(acc, tk[i], r.val))
            ELSE IF tk[r.next] = "}" THEN Parsed(Obj(Put(acc, tk[i], r.val)), r.next + 1)
            ELSE ParseFail

\* json.loads: one value and nothing after it
json_loads(tk) ==
    LET r == ParseValue(tk, 1)
    IN IF r.ok /\ r.next = Len(tk) + 1 THEN r ELSE ParseFail

\* tool schemas: the JSON Schema keywords the catalog's tools use, in the
\* order type, properties, required, additionalProperties
NoType == "<absent>"
Schema(type, properties, required, additional) ==
    [kind |-> "dict", type |-> type, properties |-> properties,
     required |-> required, additional |-> additional]

\* the schema of _smoke_test_planner (lines 385-397)
SmokeSchema ==
    Schema("object", <<[k |-> "title", type |-> "string"],
                       [k |-> "content", type |-> "strings1"]>>,
           <<"title", "content">>, FALSE)

Schemas == {Schema(NoType, <<>>, <<>>, TRUE),
            SmokeSchema,
            Schema("object", <<>>, <<"title">>, TRUE),
            Schema("object", <<[k |-> "title", type |-> "string"]>>, <<>>, FALSE),
            Schema("array", <<>>, <<>>, TRUE)}

\* a tool_schema that is not a JSON object
NotADict == [kind |-> "list"]

Member(obj, k) == obj.members[CHOOSE i \in 1..Len(obj.members) : obj.members[i].k = k].v
HasMember(obj, k) == \E i \in 1..Len(obj.members) : obj.members[i].k = k

\* errors of one property subschema, in keyword order type, items, minItems
PropertyErrors(v, p) ==
    IF p.type = "string"
    THEN IF v.t = "string" THEN <<>> ELSE <<<<"type", p.k>>>>
    ELSE IF v.t # "array" THEN <<<<"type", p.k>>>>
    ELSE (IF \E i \in 1..Len(v.items) : v.items[i].t # "string"
          THEN <<<<"items", p.k>>>> ELSE <<>>)
         \o (IF Len(v.items) < 1 THEN <<<<"minItems", p.k>>>> ELSE <<>>)

RECURSIVE PropertiesErrors(_, _, _)
PropertiesErrors(obj, props, i) ==
    IF i > Len(props) THEN <<>>
    ELSE (IF HasMember(obj, props[i].k) THEN PropertyErrors(Member(obj, props[i].k), props[i])
          ELSE <<>>)
         \o PropertiesErrors(obj, props, i + 1)

RequiredErrors(obj, required) ==
    LET missing == SelectSeq(required, LAMBDA k : ~HasMember(obj, k))
    IN [i \in 1..Len(missing) |-> <<"required", missing[i]>>]

AdditionalErrors(obj, schema) ==
    LET extra == SelectSeq(obj.members,
                           LAMBDA m : \A i \in 1..Len(schema.properties) :
                                          schema.properties[i].k # m.k)
    IN IF schema.additional THEN <<>>
       ELSE [i \in 1..Len(extra) |-> <<"additional", extra[i].k>>]

\* Draft202012Validator(schema).iter_errors(instance), instance a JSON object
iter_errors(schema, obj) ==
    (IF schema.type \in {NoType, "object"} THEN <<>> ELSE <<<<"type", "$">>>>)
    \o PropertiesErrors(obj, schema.properties, 1)
    \o RequiredErrors(obj, schema.required)
    \o AdditionalErrors(obj, schema)

Returned(v) == [kind |-> "return", value |-> v]
Raised(exc, msg) == [kind |-> "raise", exc |-> exc, msg |-> msg]
NoResult == [kind |-> "none"]

\* what the language model may answer: any short token sequence, the
\* well-formed objects below, or a failure of the API call
LongResponses ==
    {<<"{", "title", ":", "s", "}">>,
     <<"{", "title", ":", "s", ",", "content", ":", "[", "s", "]", "}">>,
     <<"{", "title", ":", "s", ",", "content", ":", "[", "]", "}">>,
     <<"{", "title", ":", "1", ",", "content", ":", "[", "s", ",", "1", "]", "}">>,
     <<"{", "title", ":", "s", ",", "s", ":", "1", "}">>,
     <<"{", "title", ":", "s", ",", "title", ":", "1", "}">>,
     <<"{", "title", ":", "s", "}", "junk">>,
     <<"[", "{", "title", ":", "s", "}", "]">>}

Responses == ListsOf(JsonTokens, MaxRaw) \cup LongResponses

PlanOff ==
    /\ tool_schema = NotADict
    /\ raw_json = <<>>
    /\ arguments = NoResult
    /\ llm_calls = 0
    /\ plan_result = NoResult
    /\ ppc = "off"

InitPlan ==
    /\ tool_schema \in Schemas \cup {NotADict}
    /\ raw_json = <<>>
    /\ arguments = NoResult
    /\ llm_calls = 0
    /\ plan_result = NoResult
    /\ ppc = "ready"

PlanFrame == UNCHANGED <<idxVars, rankVars, textVars, chunkVars, chooseVars, flowVars, optionVars, runVars, searchVars>>

PlanRaise(exc, msg) ==
    /\ plan_result' = Raised(exc, msg)
    /\ ppc' = "done"

\* lines 131-132
plan_arguments ==
    /\ ppc = "ready"
    /\ IF tool_schema.kind # "dict"
       THEN PlanRaise("ValueError", <<"Tool schema must be a JSON object">>)
       ELSE ppc' = "invoke" /\ UNCHANGED plan_result
    /\ UNCHANGED <<tool_schema, raw_json, arguments, llm_calls>>
    /\ PlanFrame

\* lines 151, 159-177: one request; the call fails, answers without text, or
\* answers the joined text
invoke_llm ==
    /\ ppc = "invoke"
    /\ llm_calls' = llm_calls + 1
    /\ \/ /\ PlanRaise("APIError", <<"request failed">>)
          /\ UNCHANGED raw_json
       \/ \E resp \in Responses :
             /\ raw_json' = resp
             /\ IF resp = <<>>
                THEN PlanRaise("RuntimeError", <<"OpenAI response was empty">>)
                ELSE ppc' = "parse" /\ UNCHANGED plan_result
    /\ UNCHANGED <<tool_schema, arguments>>
    /\ PlanFrame

\* a parse failure answered by asking the model again
ParseExcept_retry(msg) ==
    IF llm_calls < 2 THEN ppc' = "invoke" /\ UNCHANGED plan_result
    ELSE PlanRaise("ValueError", msg)

\* lines 183-186
ParseExcept(msg) == PlanRaise("ValueError", msg)

\* lines 152, 180-187
parse_json ==
    /\ ppc = "parse"
    /\ IF ~json_loads(raw_json).ok
       THEN ParseExcept(<<"Model output was not valid JSON">>) /\ UNCHANGED arguments
       ELSE IF json_loads(raw_json).val.t # "object"
       THEN ParseExcept(<<"Model output must be a JSON object">>) /\ UNCHANGED arguments
       ELSE /\ arguments' = json_loads(raw_json).val
            /\ ppc' = "validate"
            /\ UNCHANGED plan_result
    /\ UNCHANGED <<tool_schema, raw_json, llm_calls>>
    /\ PlanFrame

\* the validation error logged and the arguments returned all the same
ValidateExcept_return(message) ==
    /\ plan_result' = Returned(arguments)
    /\ ppc' = "done"

\* lines 155-156
ValidateExcept(message) ==
    PlanRaise("ValueError", <<"Model output failed schema validation">> \o message)

\* lines 153-157
validate ==
    /\ ppc = "validate"
    /\ IF iter_errors(tool_schema, arguments) # <<>>
       THEN ValidateExcept(iter_errors(tool_schema, arguments)[1])
       ELSE /\ plan_result' = Returned(arguments)
            /\ ppc' = "done"
    /\ UNCHANGED <<tool_schema, raw_json, arguments, llm_calls>>
    /\ PlanFrame

(* ---------------- workflow orchestrator (workflow.py) ------------------- *)

\* catalog links are sequences of character runs: "/", the run "server", a
\* run "n" that stands for any other name, and blanks
LinkRuns == {"/", "server", "n", " "}
Links == ListsOf(LinkRuns, MaxLink) \cup {None}

StartsWith(s, prefix) == Len(s) >= Len(prefix) /\ SubSeq(s, 1, Len(prefix)) = prefix

\* str.strip(chars)
StripOf(s, C) ==
    LET Keep == {p \in 1..Len(s) : s[p] \notin C}
    IN IF Keep = {} THEN <<>>
       ELSE SubSeq(s, CHOOSE p \in Keep : \A q \in Keep : p <= q,
                      CHOOSE p \in Keep : \A q \in Keep : p >= q)

Ok(v) == [ok |-> TRUE, val |-> v]
ValueError(msg) == [ok |-> FALSE, exc |-> "ValueError", msg |-> msg]

\* `if not child_link`
Falsy(link) == link \in {None, <<>>}

\* a link with nothing behind the prefix accepted as the bare host
DeriveEmpty_accept(link) == Ok(<<"https://server.smithery.ai/", "/mcp">>)

\* line 45
DeriveEmpty(link) == ValueError("Unable to derive MCP path from child link")

\* the /server prefix left in place
CutPrefix_keep(s) == s

\* lines 41-42
CutPrefix(s) ==
    IF StartsWith(s, <<"/", "server">>) THEN SubSeq(s, 3, Len(s)) ELSE s

\* lines 32-46
derive_mcp_url(link) ==
    IF Falsy(link) THEN ValueError("Child link is required to derive the MCP URL.")
    ELSE LET stripped == Strip(link)
             cut == CutPrefix(stripped)
             trimmed == StripOf(cut, {"/"})
         IN IF trimmed = <<>> THEN DeriveEmpty(link)
            ELSE Ok(<<"https://server.smithery.ai/">> \o trimmed \o <<"/mcp">>)

\* str.split("/")[0]
FirstSegment(s) ==
    LET Slashes == {p \in 1..Len(s) : s[p] = "/"}
    IN IF Slashes = {} THEN s
       ELSE SubSeq(s, 1, (CHOOSE p \in Slashes : \A q \in Slashes : p <= q) - 1)

\* lines 49-61
extract_server_slug(link) ==
    IF Falsy(link) THEN ValueError("Child link is required to derive the server slug.")
    ELSE LET trimmed == StripOf(Strip(link), {"/"})
             cut == IF StartsWith(trimmed, <<"server", "/">>)
                    THEN SubSeq(trimmed, 3, Len(trimmed)) ELSE trimmed
             slug == Strip(FirstSegment(cut))
         IN IF slug = <<>> THEN ValueError("Unable to derive server slug from child link")
            ELSE Ok(slug)

\* history entries: a role and a content, each a sequence of character runs
\* (a missing key reads as the empty string, lines 250-251)
Roles == {<<"user">>, <<" ", "USER">>, <<"assistant">>}
Contents == {<<"a">>, <<" ", "b">>, <<" ">>}
Turns == {[role |-> r, content |-> c] : r \in Roles, c \in Contents}
\* `if history:` takes None and [] alike: both are <<>> here
Histories == ListsOf(Turns, HistoryLimit + 1)

\* the instruction of the request, one line
notion_instruction == <<"task">>

\* the whole history kept
Recent_all(h) == h

\* line 247: history[-10:]
Recent(h) ==
    IF Len(h) <= HistoryLimit THEN h ELSE SubSeq(h, Len(h) - HistoryLimit + 1, Len(h))

\* lines 250-255: one rendered line of the block, nothing for a blank content
RenderTurn(item) ==
    LET role == Lower(Strip(item.role))
        content == Strip(item.content)
    IN IF content = <<>> THEN <<>>
       ELSE <<<<(IF role = <<"user">> THEN "User: " ELSE "Assistant: ")>> \o content>>

RECURSIVE RenderTurns(_, _)
RenderTurns(h, i) ==
    IF i > Len(h) THEN <<>> ELSE RenderTurn(h[i]) \o RenderTurns(h, i + 1)

\* lines 245-261: the text is given as its lines (its split on "\n")
enriched_instruction(h) ==
    LET lines == IF h = <<>> THEN <<>> ELSE RenderTurns(Recent(h), 1)
    IN IF lines = <<>> THEN <<notion_instruction>>
       ELSE <<<<"Previous conversation:">>>> \o lines \o <<<<>>, notion_instruction>>

Modes == {"<None>", "direct", "mcp"}
Overrides == {None, <<"http://override/mcp">>}

Envelope(url, via) == [kind |-> "return", mcp_base_url |-> url, via |-> via]
Failure(exc, msg) == [kind |-> "raise", exc |-> exc, msg |-> msg]

FlowOff ==
    /\ child_link = None
    /\ mode = "<None>"
    /\ override = None
    /\ openai_key = TRUE
    /\ smithery_key = TRUE
    /\ net = <<>>
    /\ base_url = None
    /\ server_slug = None
    /\ routed = "none"
    /\ envelope = NoResult
    /\ history = <<>>
    /\ sent = None
    /\ fpc = "off"

InitFlow ==
    /\ child_link \in Links
    /\ mode \in Modes
    /\ override \in Overrides
    /\ openai_key \in BOOLEAN
    /\ smithery_key \in BOOLEAN
    /\ net = <<>>
    /\ base_url = None
    /\ server_slug = None
    /\ routed = "none"
    /\ envelope = NoResult
    /\ history = <<>>
    /\ sent = None
    /\ fpc = "ready"

\* the calls that carry a conversation history
InitHistory ==
    /\ child_link \in {<<"/", "server", "/", "n">>, <<" ">>}
    /\ mode \in {"<None>", "direct"}
    /\ override = None
    /\ openai_key = TRUE
    /\ smithery_key = TRUE
    /\ net = <<>>
    /\ base_url = None
    /\ server_slug = None
    /\ routed = "none"
    /\ envelope = NoResult
    /\ history \in Histories
    /\ sent = None
    /\ fpc = "ready"

flowIn == <<child_link, mode, override, openai_key, smithery_key, history>>

FlowFrame ==
    UNCHANGED <<idxVars, rankVars, textVars, chunkVars, chooseVars, planVars, optionVars, runVars, searchVars>>

FlowRaise(exc, msg) ==
    /\ envelope' = Failure(exc, msg)
    /\ fpc' = "done"

\* `(child_link or "").strip()` is empty
BlankLink(link) == Falsy(link) \/ Strip(link) = <<>>

\* the direct route taken on the mode alone
ShouldDirect_modeOnly(m, link) == m = "direct"

\* line 236
ShouldDirect(m, link) == m = "direct" \/ BlankLink(link)

\* lines 236-270: the entry point of /api/execute
execute_agent_workflow ==
    /\ fpc = "ready"
    /\ IF ShouldDirect(mode, child_link)
       THEN routed' = "direct" /\ fpc' = "direct" /\ UNCHANGED sent
       ELSE routed' = "mcp" /\ fpc' = "mcp" /\ sent' = enriched_instruction(history)
    /\ UNCHANGED <<flowIn, net, base_url, server_slug, envelope>>
    /\ FlowFrame

\* execute_mcp_workflow called by itself, as the tests do
call_execute_mcp_workflow ==
    /\ fpc = "ready"
    /\ routed' = "mcp_entry"
    /\ fpc' = "mcp"
    /\ sent' = <<notion_instruction>>
    /\ UNCHANGED <<flowIn, net, base_url, server_slug, envelope>>
    /\ FlowFrame

\* lines 169-218: ensure_api_key, then one chat completion request
complete_direct_answer ==
    /\ fpc = "direct"
    /\ IF ~openai_key
       THEN FlowRaise("RuntimeError", "Missing OPENAI_API_KEY") /\ UNCHANGED net
       ELSE /\ net' = Append(net, "chat.completions.create")
            /\ \/ envelope' = Envelope(None, "direct") /\ fpc' = "done"
               \/ FlowRaise("APIError", "request failed")
    /\ UNCHANGED <<flowIn, base_url, server_slug, routed, sent>>
    /\ FlowFrame

\* line 142
BaseUrl(o, link) == IF o # None THEN Ok(o) ELSE derive_mcp_url(link)

\* lines 142-143
execute_mcp_workflow ==
    /\ fpc = "mcp"
    /\ IF ~BaseUrl(override, child_link).ok
       THEN /\ FlowRaise("ValueError", BaseUrl(override, child_link).msg)
            /\ UNCHANGED <<base_url, server_slug>>
       ELSE IF ~extract_server_slug(child_link).ok
       THEN /\ FlowRaise("ValueError", extract_server_slug(child_link).msg)
            /\ base_url' = BaseUrl(override, child_link).val
            /\ UNCHANGED server_slug
       ELSE /\ base_url' = BaseUrl(override, child_link).val
            /\ server_slug' = extract_server_slug(child_link).val
            /\ fpc' = "smithery"
            /\ UNCHANGED envelope
    /\ UNCHANGED <<flowIn, net, routed, sent>>
    /\ FlowFrame

\* notion_agent.py 252-277: the keys are checked and the agent is built
run_smithery_task ==
    /\ fpc = "smithery"
    /\ IF ~openai_key THEN FlowRaise("RuntimeError", "OPENAI_API_KEY is required.")
       ELSE IF ~smithery_key THEN FlowRaise("RuntimeError", "SMITHERY_API_KEY is required.")
       ELSE fpc' = "connect" /\ UNCHANGED envelope
    /\ UNCHANGED <<flowIn, net, base_url, server_slug, routed, sent>>
    /\ FlowFrame

\* notion_agent.py 279: entering `async with agent.mcp_servers[0]`
mcp_connect ==
    /\ fpc = "connect"
    /\ \/ /\ net' = Append(net, "mcp.connect")
          /\ fpc' = "run"
          /\ UNCHANGED envelope
       \/ /\ net' = Append(net, "mcp.connect failed")
          /\ FlowRaise("ConnectionError", "connect failed")
    /\ UNCHANGED <<flowIn, base_url, server_slug, routed, sent>>
    /\ FlowFrame

\* notion_agent.py 280-288 and workflow.py 155-166: the agent lists the tools,
\* may call one, the connection closes, the envelope is built
runner_run ==
    /\ fpc = "run"
    /\ \E did_call \in BOOLEAN, failed \in BOOLEAN :
          /\ net' = net \o <<"list_tools">>
                        \o (IF did_call THEN <<"call_tool">> ELSE <<>>)
                        \o <<"mcp.close">>
          /\ IF failed THEN FlowRaise("AgentError", "run failed")
             ELSE envelope' = Envelope(base_url, "mcp") /\ fpc' = "done"
    /\ UNCHANGED <<flowIn, base_url, server_slug, routed, sent>>
    /\ FlowFrame

(* ------------ the direct-answer option (workflow.py 87-124) ------------- *)

\* a search result carries no mode; entries that carry one are what a caller
\* of add_direct_answer_option may hand in
NoMode == "<absent>"
Entry(server, link, m) == [server |-> server, child_link |-> link, mode |-> m]

\* lines 93-99
direct_entry == Entry("Direct Answer", "", "direct")

SearchEntries == {Entry("s1", "/server/s1", NoMode), Entry("s2", "/server/s2", NoMode)}
ModeEntries == {Entry("s1", "/server/s1", "direct"), direct_entry}

\* what rag_search returns: ranked servers, none with a mode
SearchResults == ListsOf(SearchEntries, MaxResults)
\* any list add_direct_answer_option can be called with
ResultLists == ListsOf(SearchEntries \cup ModeEntries, MaxResults)

\* the option appended whatever the list holds
HasDirect_never(rs) == FALSE

\* line 91
HasDirect(rs) == \E i \in 1..Len(rs) : rs[i].mode = "direct"

\* lines 87-100
add_direct_answer_option(rs) ==
    IF HasDirect(rs) THEN rs ELSE rs \o <<direct_entry>>

OptionsOff ==
    /\ results = <<>>
    /\ options = <<>>
    /\ before = <<>>
    /\ applied = -1

InitOptions ==
    /\ results \in ResultLists
    /\ options = results
    /\ before = results
    /\ applied = 0

OptionsFrame ==
    UNCHANGED <<idxVars, rankVars, textVars, chunkVars, chooseVars, planVars, flowVars, runVars, searchVars>>

\* lines 103-124: the search result with the option added
async_rag_search ==
    /\ applied = 0
    /\ results \in SearchResults
    /\ before' = results
    /\ options' = add_direct_answer_option(results)
    /\ applied' = 1
    /\ UNCHANGED results
    /\ OptionsFrame

\* app.py 119-129: the handler adds the option to what async_rag_search returned
api_search ==
    /\ applied = 1
    /\ results \in SearchResults
    /\ before' = options
    /\ options' = add_direct_answer_option(options)
    /\ applied' = 2
    /\ UNCHANGED results
    /\ OptionsFrame

\* add_direct_answer_option called on any list, and on its own result again
call_add_direct_answer_option ==
    /\ applied >= 0
    /\ applied < MaxApply
    /\ before' = options
    /\ options' = add_direct_answer_option(options)
    /\ applied' = applied + 1
    /\ UNCHANGED results
    /\ OptionsFrame

(* ------------- ActRunner.run_async (orchestrator.py 26-286) ------------- *)

\* a key of the tool entry that is absent or holds a falsy value
NotGiven == [kind |-> "absent"]

\* the tools a server lists: a name, a description, and the three keys the
\* schema is looked up under
Tool(name, input_schema, schema, input) ==
    [name |-> name, description |-> None, input_schema |-> input_schema,
     schema |-> schema, input |-> input]

ListedTools ==
    {Tool(<<"x">>, SmokeSchema, NotGiven, NotGiven),
     Tool(<<"plan">>, NotGiven, Schema("object", <<>>, <<"title">>, TRUE), NotGiven),
     Tool(<<"page", "s">>, NotGiven, NotGiven, NotADict)}

ToolLists == ListsOf(ListedTools, MaxListed)

\* line 225: chosen.get("input_schema") or chosen.get("schema") or chosen.get("input")
SchemaOf(tool) ==
    IF tool.input_schema.kind # "absent" THEN tool.input_schema
    ELSE IF tool.schema.kind # "absent" THEN tool.schema
    ELSE tool.input

Conn(transport) == [transport |-> transport, open |-> TRUE]

\* the connection at position c is closed
Closed(cs, c) == [i \in 1..Len(cs) |-> IF i = c THEN [cs[i] EXCEPT !.open = FALSE] ELSE cs[i]]

\* the reports run_async returns
NoToolsReport == [kind |-> "return", report |-> "no_tools", tools |-> <<>>, dry_run |-> TRUE,
                  message |-> "No tools available"]
DryRunReport(name, args) ==
    [kind |-> "return", report |-> "planned", tool |-> name, planned_args |-> args,
     dry_run |-> TRUE]
CallReport(name, args) ==
    [kind |-> "return", report |-> "called", tool |-> name, args |-> args]
NotionToolsReport(tls) ==
    [kind |-> "return", report |-> "notion_tools", tools |-> tls, dry_run |-> TRUE]
NotionReport == [kind |-> "return", report |-> "notion_output"]

RunOff ==
    /\ endpoint = ""
    /\ is_notion = FALSE
    /\ dry_run = FALSE
    /\ sdk = "none"
    /\ conns = <<>>
    /\ client = 0
    /\ called = <<>>
    /\ trace = <<>>
    /\ run_result = NoResult
    /\ apc = "off"

InitRun ==
    /\ endpoint \in {"", "http://agent"}
    /\ is_notion \in BOOLEAN
    /\ dry_run \in BOOLEAN
    /\ sdk \in {"none", "noconnector", "ok"}
    /\ conns = <<>>
    /\ client = 0
    /\ called = <<>>
    /\ trace = <<>>
    /\ run_result = NoResult
    /\ apc = "ready"
    /\ user_task \in {<<<<"x">>>>, <<<<"PLAN">>>>}
    /\ tools = <<>>
    /\ chosen = 0
    /\ kpc = "off"

runIn == <<endpoint, is_notion, dry_run, sdk, user_task>>

RunFrame ==
    UNCHANGED <<idxVars, rankVars, textVars, chunkVars, flowVars, optionVars, searchVars, kpc>>

\* an exception that leaves run_async without passing an `async with` exit
RunRaise(exc, msg) ==
    /\ run_result' = Raised(exc, msg)
    /\ apc' = "done"

\* the body of `async with MCPClient(...)` is left with outcome r: __aexit__
\* runs next
LeaveBody(r) ==
    /\ run_result' = r
    /\ apc' = "aexit"

\* lines 197-211: the endpoint check and the choice of the path
run_async ==
    /\ apc = "ready"
    /\ IF endpoint = "" THEN RunRaise("ValueError", <<"Selected agent has no endpoint.">>)
       ELSE IF is_notion THEN apc' = "n_stream" /\ UNCHANGED run_result
       ELSE apc' = "connect" /\ UNCHANGED run_result
    /\ UNCHANGED <<runIn, conns, client, called, trace, tools, chosen, planVars>>
    /\ RunFrame

\* lines 43-63: __aenter__ -> initialize up to connector.connect; without a
\* usable SDK, or when connect raises, the client stays unconnected.  A
\* cancellation here leaves __aenter__, so __aexit__ does not run.
mcp_client_connect ==
    /\ apc = "connect"
    /\ trace' = Append(trace, "connect")
    /\ IF sdk # "ok"
       THEN apc' = "list" /\ UNCHANGED <<conns, client, run_result>>
       ELSE \/ /\ conns' = Append(conns, Conn("sse"))
               /\ client' = Len(conns) + 1
               /\ apc' = "initialize"
               /\ UNCHANGED run_result
            \/ /\ apc' = "list"
               /\ UNCHANGED <<conns, client, run_result>>
            \/ /\ RunRaise("CancelledError", <<"cancelled">>)
               /\ UNCHANGED <<conns, client>>
    /\ UNCHANGED <<runIn, called, tools, chosen, planVars>>
    /\ RunFrame

\* the connection closed before the client forgets it
InitExcept_close ==
    /\ conns' = Closed(conns, client)
    /\ client' = 0

\* lines 66-68: `except Exception:` logs and sets _sdk_client to None
InitExcept ==
    /\ client' = 0
    /\ UNCHANGED conns

\* lines 64-70: the connected client's own initialize()
mcp_client_initialize ==
    /\ apc = "initialize"
    /\ trace' = Append(trace, "initialize")
    /\ \/ /\ apc' = "list"
          /\ UNCHANGED <<conns, client, run_result>>
       \/ /\ InitExcept
          /\ apc' = "list"
          /\ UNCHANGED run_result
       \/ /\ RunRaise("CancelledError", <<"cancelled">>)
          /\ UNCHANGED <<conns, client>>
    /\ UNCHANGED <<runIn, called, tools, chosen, planVars>>
    /\ RunFrame

\* the empty tool list not told from any other
NoTools_never(tls) == FALSE

\* line 214: `if not tools`
NoTools(tls) == tls = <<>>

\* lines 81-97 and 213-227: list_tools raises on an unconnected client,
\* answers [] when the SDK call raises, and otherwise what the server lists;
\* the trace notes the call and, after it, that a list came back
list_tools ==
    /\ apc = "list"
    /\ IF client = 0
       THEN /\ LeaveBody(Raised("RuntimeError", <<"MCP client is not connected">>))
            /\ trace' = Append(trace, "list_tools")
            /\ UNCHANGED tools
       ELSE \/ \E tls \in ToolLists :
                 /\ tools' = tls
                 /\ trace' = trace \o <<"list_tools", "listed">>
                 /\ IF NoTools(tls)
                    THEN IF dry_run THEN LeaveBody(NoToolsReport)
                         ELSE LeaveBody(Raised("RuntimeError",
                                               <<"No tools available from selected agent.">>))
                    ELSE apc' = "choose" /\ UNCHANGED run_result
            \/ /\ LeaveBody(Raised("CancelledError", <<"cancelled">>))
               /\ trace' = Append(trace, "list_tools")
               /\ UNCHANGED tools
    /\ UNCHANGED <<runIn, conns, client, called, chosen, planVars>>
    /\ RunFrame

\* lines 228-236: _choose_tool and the schema of the chosen tool; the planner
\* is called with it
choose_and_plan ==
    /\ apc = "choose"
    /\ trace' = Append(trace, "choose")
    /\ chosen' = choose_tool(user_task, tools)
    /\ IF choose_tool(user_task, tools) = 0
       THEN /\ LeaveBody(Raised("RuntimeError", <<"Failed to choose a tool for the task.">>))
            /\ UNCHANGED planVars
       ELSE IF SchemaOf(tools[choose_tool(user_task, tools)]).kind # "dict"
       THEN /\ LeaveBody(Raised("ValueError",
                                <<"Selected tool does not provide a JSON Schema">>))
            /\ UNCHANGED planVars
       ELSE /\ tool_schema' = SchemaOf(tools[choose_tool(user_task, tools)])
            /\ raw_json' = <<>>
            /\ arguments' = NoResult
            /\ llm_calls' = 0
            /\ plan_result' = NoResult
            /\ ppc' = "ready"
            /\ apc' = "plan"
            /\ UNCHANGED run_result
    /\ UNCHANGED <<runIn, conns, client, called, tools>>
    /\ RunFrame

\* the dry run not told from a real one
DryRunReturns_never(d) == FALSE

\* line 237: `if dry_run`
DryRunReturns(d) == d

\* lines 236-244: plan_arguments is back; its exception leaves the body, a
\* dry run returns the planned arguments
planned ==
    /\ apc = "plan"
    /\ ppc = "done"
    /\ trace' = Append(trace, "plan")
    /\ IF plan_result.kind = "raise" THEN LeaveBody(plan_result)
       ELSE IF DryRunReturns(dry_run)
       THEN LeaveBody(DryRunReport(tools[chosen].name, plan_result.value))
       ELSE apc' = "call" /\ UNCHANGED run_result
    /\ UNCHANGED <<runIn, conns, client, called, tools, chosen, planVars>>
    /\ RunFrame

\* lines 99-115 and 245-255: one call_tool request with the planned arguments
call_tool ==
    /\ apc = "call"
    /\ trace' = Append(trace, "call_tool")
    /\ called' = Append(called, [name |-> tools[chosen].name, arguments |-> plan_result.value])
    /\ \/ LeaveBody(CallReport(tools[chosen].name, plan_result.value))
       \/ LeaveBody(Raised("RuntimeError",
                           <<"MCP SDK was unable to execute the requested tool call.">>))
       \/ LeaveBody(Raised("CancelledError", <<"cancelled">>))
    /\ UNCHANGED <<runIn, conns, client, tools, chosen, planVars>>
    /\ RunFrame

\* lines 40-41 and 72-79: __aexit__ -> close; an error of the SDK's close is
\* swallowed
mcp_client_close ==
    /\ apc = "aexit"
    /\ trace' = Append(trace, "close")
    /\ IF client # 0
       THEN conns' = Closed(conns, client) /\ client' = 0
       ELSE UNCHANGED <<conns, client>>
    /\ apc' = "done"
    /\ UNCHANGED <<runIn, called, tools, chosen, planVars, run_result>>
    /\ RunFrame

\* notion_mcp_bridge.py 39-56: the streamable HTTP attempt; a failed connect
\* is closed again and the SSE attempt follows
connect_streamable ==
    /\ apc = "n_stream"
    /\ trace' = Append(trace, "connect_streamable")
    /\ \/ /\ conns' = Append(conns, Conn("streamable_http"))
          /\ client' = Len(conns) + 1
          /\ apc' = "n_body"
          /\ UNCHANGED run_result
       \/ /\ apc' = "n_sse"
          /\ UNCHANGED <<conns, client, run_result>>
       \/ /\ RunRaise("CancelledError", <<"cancelled">>)
          /\ UNCHANGED <<conns, client>>
    /\ UNCHANGED <<runIn, called, tools, chosen, planVars>>
    /\ RunFrame

\* notion_mcp_bridge.py 58-76: the SSE fallback; its failure leaves
\* connect_notion_server
connect_sse ==
    /\ apc = "n_sse"
    /\ trace' = Append(trace, "connect_sse")
    /\ \/ /\ conns' = Append(conns, Conn("sse"))
          /\ client' = Len(conns) + 1
          /\ apc' = "n_body"
          /\ UNCHANGED run_result
       \/ /\ RunRaise("ConnectionError", <<"connect failed">>)
          /\ UNCHANGED <<conns, client>>
       \/ /\ RunRaise("CancelledError", <<"cancelled">>)
          /\ UNCHANGED <<conns, client>>
    /\ UNCHANGED <<runIn, called, tools, chosen, planVars>>
    /\ RunFrame

\* orchestrator.py 265-286 and notion_mcp_bridge.py 79-96: inside
\* `async with server`, a dry run lists the tools, a real run hands the task
\* to the agent
notion_body ==
    /\ apc = "n_body"
    /\ IF dry_run
       THEN \/ \E tls \in ToolLists :
                  /\ tools' = tls
                  /\ trace' = trace \o <<"list_tools", "listed">>
                  /\ run_result' = NotionToolsReport(tls)
            \/ /\ run_result' = Raised("RuntimeError", <<"Failed to inspect Notion MCP tools">>)
               /\ trace' = Append(trace, "list_tools")
               /\ UNCHANGED tools
            \/ /\ run_result' = Raised("CancelledError", <<"cancelled">>)
               /\ trace' = Append(trace, "list_tools")
               /\ UNCHANGED tools
       ELSE /\ trace' = Append(trace, "Runner.run")
            /\ UNCHANGED tools
            /\ \/ run_result' = NotionReport
               \/ run_result' = Raised("RuntimeError", <<"Notion MCP run failed">>)
               \/ run_result' = Raised("CancelledError", <<"cancelled">>)
    /\ apc' = "n_exit"
    /\ UNCHANGED <<runIn, conns, client, called, chosen, planVars>>
    /\ RunFrame

\* the exit of `async with server`: the server's cleanup
notion_exit ==
    /\ apc = "n_exit"
    /\ trace' = Append(trace, "close")
    /\ conns' = Closed(conns, client)
    /\ client' = 0
    /\ apc' = "done"
    /\ UNCHANGED <<runIn, called, tools, chosen, planVars, run_result>>
    /\ RunFrame

(* ---- the search entry points (RAG.py 262-313, vector_search.py 22-69, ---- *)
(* ---- main.py 228-248) ------------------------------------------------ *)

Searchers == {"score_and_rank_servers", "semantic_search", "_select_agent"}

\* the vector store or the embedding provider may fail during the search
Faults == {"none", "store", "embedding"}

SearchOff ==
    /\ searcher = "none"
    /\ fault = "none"
    /\ search_out = NoResult
    /\ spc = "off"

\* docs holds what the store answers when the search succeeds
InitSearch ==
    /\ searcher \in Searchers
    /\ fault \in Faults
    /\ search_out = NoResult
    /\ spc = "ready"
    /\ docs \in SeqsUpTo(MaxTop)
    /\ top_servers = 0
    /\ grouped = NoGroups
    /\ ranked = <<>>
    /\ rpc = "off"

SearchFrame ==
    UNCHANGED <<idxVars, textVars, chunkVars, chooseVars, planVars, flowVars, optionVars, runVars,
                searcher, fault, docs>>

\* RAG.py 268: `docs = vectordb.similarity_search(query, k=k_tools)`, outside
\* any try: its exception leaves score_and_rank_servers
similarity_search ==
    /\ spc = "ready"
    /\ searcher = "score_and_rank_servers"
    /\ IF fault # "none"
       THEN /\ search_out' = Raised("Exception", <<fault>>)
            /\ spc' = "done"
            /\ UNCHANGED rpc
       ELSE /\ rpc' = "ready"
            /\ spc' = "rank"
            /\ UNCHANGED search_out
    /\ UNCHANGED <<top_servers, grouped, ranked>>
    /\ SearchFrame

\* RAG.py 313: `return results`
return_results ==
    /\ spc = "rank"
    /\ rpc = "ranked"
    /\ search_out' = Returned(ranked)
    /\ spc' = "done"
    /\ UNCHANGED <<top_servers, grouped, ranked, rpc>>
    /\ SearchFrame

\* vector_search.py 39-62: one formatted result per hit, in the store's order
Formatted(hits) == [i \in 1..Len(hits) |-> [name |-> hits[i]]]

\* vector_search.py 67-69: `except Exception as e:` prints the error and
\* returns []
SemanticExcept == Returned(<<>>)

\* vector_search.py 33-69: get_vectorstore and similarity_search_with_score
\* inside one try
semantic_search ==
    /\ spc = "ready"
    /\ searcher = "semantic_search"
    /\ search_out' = IF fault # "none" THEN SemanticExcept ELSE Returned(Formatted(docs))
    /\ spc' = "done"
    /\ UNCHANGED <<top_servers, grouped, ranked, rpc>>
    /\ SearchFrame

\* main.py 237-248 (no agent_id): a failed search is written to stderr and
\* answered with None, as is a search without hits
select_agent ==
    /\ spc = "ready"
    /\ searcher = "_select_agent"
    /\ search_out' = IF fault # "none" THEN Returned(None)
                     ELSE IF docs = <<>> THEN Returned(None)
                     ELSE Returned(<<docs[1]>>)
    /\ spc' = "done"
    /\ UNCHANGED <<top_servers, grouped, ranked, rpc>>
    /\ SearchFrame

\* RAG.py 268 in search_servers, after ensure_vectordb returned a handle: the
\* similarity search of the ranking reads the persist directory
similarity_read(w) ==
    /\ pc[w] = "done"
    /\ result[w] \in {"built", "opened"}
    /\ "searched" \notin events[w]
    /\ events' = [events EXCEPT ![w] = @ \cup {"searched"}]
    /\ UNCHANGED <<storeVars, envVars, stamp, succeeded, calls, pc, force_reindex, texts,
                   indexCalls, result, entry>>
    /\ UNCHANGED otherVars

(* ----------------------------- environment ----------------------------- *)

\* the ETL rewrites (or removes) the catalog file
EditCatalog(v) ==
    /\ AllIdle
    /\ UNCHANGED otherVars
    /\ v # catalog
    /\ catalog' = v
    /\ UNCHANGED <<storeVars, embedUp, gcs, agentStore, stamp, succeeded, callVars>>

\* the persisted files are damaged (partially written, truncated, locked)
Damage(h) ==
    /\ AllIdle
    /\ UNCHANGED otherVars
    /\ files
    /\ health = "ok"
    /\ health' = h
    /\ UNCHANGED <<files, coll, envVars, stamp, succeeded, callVars>>

\* the persist directory is emptied
RemoveStore ==
    /\ AllIdle
    /\ UNCHANGED otherVars
    /\ files
    /\ files' = FALSE
    /\ coll' = EmptyColl
    /\ health' = "ok"
    /\ UNCHANGED <<envVars, stamp, succeeded, callVars>>

\* the embedding provider goes down or comes back
EmbedFlip ==
    /\ AllIdle
    /\ UNCHANGED otherVars
    /\ embedUp' = ~embedUp
    /\ UNCHANGED <<storeVars, catalog, gcs, agentStore, stamp, succeeded, callVars>>

Step(w) ==
    \/ \E f \in BOOLEAN : Call(w, f)
    \/ sync_chroma_from_gcs(w)
    \/ ensure_check(w)
    \/ ensure_load(w)
    \/ ensure_probe(w)
    \/ index_load(w)
    \/ index_delete(w)
    \/ index_add(w)
    \/ index_persist(w)
    \/ ingest_command(w)

Env ==
    \/ \E v \in 0..MaxVersion : EditCatalog(v)
    \/ \E h \in {"corrupt", "unloadable"} : Damage(h)
    \/ RemoveStore
    \/ EmbedFlip

Init ==
    InitIndex /\ RankOff /\ TextOff /\ ChunkOff /\ ChooseOff /\ PlanOff /\ FlowOff /\ OptionsOff
    /\ RunOff
    /\ SearchOff

Next ==
    \/ \E w \in SeqWorkers : Step(w)
    \/ \E w \in SeqWorkers : main_ingest(w)
    \/ Env

Spec == Init /\ [][Next]_vars

IndexOff ==
    /\ catalog = 1
    /\ files = FALSE
    /\ coll = EmptyColl
    /\ health = "ok"
    /\ embedUp = TRUE
    /\ gcs = [state |-> "unset", version |-> 0]
    /\ stamp = 0
    /\ succeeded = {}
    /\ calls = 0
    /\ pc = [w \in Workers |-> "idle"]
    /\ force_reindex = [w \in Workers |-> FALSE]
    /\ texts = [w \in Workers |-> 0]
    /\ indexCalls = [w \in Workers |-> 0]
    /\ result = [w \in Workers |-> "none"]
    /\ entry = [w \in Workers |-> NoEntry]
    /\ events = [w \in Workers |-> {}]
    /\ agentStore = [a \in AgentIds |-> 0]

StampedStep(w) ==
    \/ \E f \in BOOLEAN : ensure_index(w, f)
    \/ ensure_index_check(w)
    \/ ensure_index_probe(w)
    \/ write_hash_stamp(w)
    \/ index_load(w)
    \/ index_delete(w)
    \/ index_add(w)
    \/ index_persist(w)

NextStamped ==
    \/ \E w \in SeqWorkers : StampedStep(w)
    \/ Env

InitStamped ==
    /\ IndexOff
    /\ RankOff
    /\ TextOff
    /\ ChunkOff
    /\ ChooseOff
    /\ PlanOff
    /\ FlowOff
    /\ OptionsOff
    /\ RunOff
    /\ SearchOff

SpecStamped == InitStamped /\ [][NextStamped]_vars

NextRank == \E top \in 0..MaxTop : score_and_rank_servers(top)

InitRanking ==
    /\ IndexOff
    /\ InitRank
    /\ TextOff
    /\ ChunkOff
    /\ ChooseOff
    /\ PlanOff
    /\ FlowOff
    /\ OptionsOff
    /\ RunOff
    /\ SearchOff

SpecRank == InitRanking /\ [][NextRank]_vars

NextText ==
    \/ call_sanitize_description
    \/ call_summarize_intent

InitTexts ==
    /\ IndexOff
    /\ RankOff
    /\ InitText
    /\ ChunkOff
    /\ ChooseOff
    /\ PlanOff
    /\ FlowOff
    /\ OptionsOff
    /\ RunOff
    /\ SearchOff

SpecText == InitTexts /\ [][NextText]_vars

NextChunk == call_build_tool_centric_chunks

InitChunks ==
    /\ IndexOff
    /\ RankOff
    /\ TextOff
    /\ InitChunk
    /\ ChooseOff
    /\ PlanOff
    /\ FlowOff
    /\ OptionsOff
    /\ RunOff
    /\ SearchOff

SpecChunk == InitChunks /\ [][NextChunk]_vars

NextChoose == call_choose_tool

InitChoosing ==
    /\ IndexOff
    /\ RankOff
    /\ TextOff
    /\ ChunkOff
    /\ InitChoose
    /\ PlanOff
    /\ FlowOff
    /\ OptionsOff
    /\ RunOff
    /\ SearchOff

SpecChoose == InitChoosing /\ [][NextChoose]_vars

NextPlan ==
    \/ plan_arguments
    \/ invoke_llm
    \/ parse_json
    \/ validate

InitPlanning ==
    /\ IndexOff
    /\ RankOff
    /\ TextOff
    /\ ChunkOff
    /\ ChooseOff
    /\ InitPlan
    /\ FlowOff
    /\ OptionsOff
    /\ RunOff
    /\ SearchOff

SpecPlan == InitPlanning /\ [][NextPlan]_vars

NextFlow ==
    \/ execute_agent_workflow
    \/ call_execute_mcp_workflow
    \/ complete_direct_answer
    \/ execute_mcp_workflow
    \/ run_smithery_task
    \/ mcp_connect
    \/ runner_run

InitFlowing ==
    /\ IndexOff
    /\ RankOff
    /\ TextOff
    /\ ChunkOff
    /\ ChooseOff
    /\ PlanOff
    /\ InitFlow
    /\ OptionsOff
    /\ RunOff
    /\ SearchOff

SpecFlow == InitFlowing /\ [][NextFlow]_vars

InitEnriching ==
    /\ IndexOff
    /\ RankOff
    /\ TextOff
    /\ ChunkOff
    /\ ChooseOff
    /\ PlanOff
    /\ InitHistory
    /\ OptionsOff
    /\ RunOff
    /\ SearchOff

SpecHistory == InitEnriching /\ [][NextFlow]_vars

NextOptions ==
    \/ async_rag_search
    \/ api_search
    \/ call_add_direct_answer_option

InitAdding ==
    /\ IndexOff
    /\ RankOff
    /\ TextOff
    /\ ChunkOff
    /\ ChooseOff
    /\ PlanOff
    /\ FlowOff
    /\ InitOptions
    /\ RunOff
    /\ SearchOff

SpecOptions == InitAdding /\ [][NextOptions]_vars

NextRun ==
    \/ run_async
    \/ mcp_client_connect
    \/ mcp_client_initialize
    \/ list_tools
    \/ choose_and_plan
    \/ plan_arguments
    \/ invoke_llm
    \/ parse_json
    \/ validate
    \/ planned
    \/ call_tool
    \/ mcp_client_close
    \/ connect_streamable
    \/ connect_sse
    \/ notion_body
    \/ notion_exit

InitRunning ==
    /\ IndexOff
    /\ RankOff
    /\ TextOff
    /\ ChunkOff
    /\ PlanOff
    /\ FlowOff
    /\ OptionsOff
    /\ InitRun
    /\ SearchOff

SpecRun == InitRunning /\ [][NextRun]_vars

NextSearch ==
    \/ similarity_search
    \/ \E top \in 0..MaxTop : score_and_rank_servers(top)
    \/ return_results
    \/ semantic_search
    \/ select_agent

InitSearching ==
    /\ IndexOff
    /\ TextOff
    /\ ChunkOff
    /\ ChooseOff
    /\ PlanOff
    /\ FlowOff
    /\ OptionsOff
    /\ RunOff
    /\ InitSearch

SpecSearch == InitSearching /\ [][NextSearch]_vars

\* one request of /api/search per worker thread (asyncio.to_thread): the
\* threads' steps interleave, nothing in the code orders them
ThreadStep(w) ==
    \/ \E f \in BOOLEAN : Call(w, f)
    \/ sync_chroma_from_gcs(w)
    \/ ensure_check(w)
    \/ ensure_load(w)
    \/ ensure_probe(w)
    \/ index_load(w)
    \/ index_delete(w)
    \/ index_add(w)
    \/ index_persist(w)
    \/ similarity_read(w)

NextThreads == \E w \in Workers : ThreadStep(w)

SpecThreads == Init /\ [][NextThreads]_vars

(* ======================= claims on the index manager =================== *)
\* a finished ensure_vectordb call of worker w
EnsureDone(w) == pc[w] = "done" /\ "ingest" \notin events[w]

\* the errors index_chunks lets out
RebuildFailures == {"catalog_raised", "open_raised", "embed_raised", "add_raised", "persist_raised"}

\* the call went through index_chunks once and gave back what it built, or
\* index_chunks itself raised
RebuiltOnce(w) ==
    /\ indexCalls[w] = 1
    /\ \/ result[w] = "built"
       \/ result[w] = "raised" /\ events[w] \cap RebuildFailures # {}

\* the stored fingerprint differs from the catalog's: no stamp names the
\* catalog file as it is now, and the collection was built from other content
StaleAtEntry(w) == entry[w].stamp # entry[w].catalog /\ ~entry[w].fresh

\* C1: a call with force_reindex = false on a non-empty store whose stored
\* fingerprint differs from the catalog's current fingerprint runs
\* index_chunks exactly once and returns the handle it built.
C1_RebuildOnFingerprintMismatch ==
    \A w \in Workers :
        (EnsureDone(w) /\ ~force_reindex[w] /\ entry[w].files /\ StaleAtEntry(w))
        => RebuiltOnce(w)

\* C2: with force_reindex = false, a non-empty healthy store and an unchanged
\* catalog, a call after the initial build reuses the opened collection and
\* never runs index_chunks.
C2_ReuseWhenClean ==
    \A w \in Workers :
        (EnsureDone(w) /\ ~force_reindex[w] /\ entry[w].files /\ entry[w].fresh
            /\ entry[w].health = "ok" /\ entry[w].embedUp)
        => (indexCalls[w] = 0 /\ result[w] = "opened")

C2_Witness ==
    \E w \in Workers :
        /\ EnsureDone(w) /\ ~force_reindex[w] /\ entry[w].files /\ entry[w].fresh
        /\ entry[w].health = "ok" /\ entry[w].embedUp
        /\ succeeded # {} /\ calls >= 2 /\ result[w] = "opened"

C3_WitnessWritten ==
    \E w \in Workers :
        /\ pc[w] = "done" /\ "stamp_written" \in events[w]
        /\ stamp = catalog /\ stamp \in succeeded /\ entry[w].stamp # stamp

\* C4 as stated: a call with force_reindex = true, or on an absent or empty
\* store, rebuilds and returns what it built; it does not fail for lack of a
\* store and does not return an opened store.
C4_RebuildWhenForcedOrAbsent ==
    \A w \in Workers :
        (EnsureDone(w) /\ (force_reindex[w] \/ ~entry[w].files))
        => RebuiltOnce(w)

\* C4 amended: a call with force_reindex = true, or on an absent store with
\* no GCS bucket configured, rebuilds and returns what it built (or lets the
\* rebuild's own error out); on an absent store with a bucket configured it
\* either raises the sync's RuntimeError without rebuilding or goes on with
\* the downloaded store.
C4_RebuildWhenForcedOrNoBucket ==
    \A w \in Workers :
        /\ (EnsureDone(w) /\ (force_reindex[w] \/ (~entry[w].files /\ gcs.state = "unset")))
           => RebuiltOnce(w)
        /\ (EnsureDone(w) /\ ~force_reindex[w] /\ ~entry[w].files /\ gcs.state # "unset")
           => \/ "sync_raised" \in events[w] /\ result[w] = "raised" /\ indexCalls[w] = 0
              \/ "synced" \in events[w]

C4_Witness ==
    \E w \in Workers :
        /\ EnsureDone(w) /\ ~force_reindex[w] /\ ~entry[w].files
        /\ gcs.state = "unset" /\ result[w] = "built" /\ files

C4_WitnessSync ==
    \E w \in Workers :
        /\ EnsureDone(w) /\ ~force_reindex[w] /\ ~entry[w].files
        /\ "synced" \in events[w] /\ result[w] = "opened"

\* C5: when the probe search raises, the call rebuilds once and returns the
\* rebuilt handle; it raises only with an error of the rebuild itself.
C5_ProbeFailureRebuilds ==
    \A w \in Workers :
        (EnsureDone(w) /\ "probe_raised" \in events[w]) => RebuiltOnce(w)

C5_Witness ==
    \E w \in Workers :
        /\ EnsureDone(w) /\ "probe_raised" \in events[w] /\ result[w] = "built"
        /\ entry[w].health = "corrupt"

\* C6: after a rebuild that returned, the collection holds exactly the chunks
\* of the catalog it was built from, one entry each; after an ingest the
\* agent store holds entries of the current catalog only.
C6_ExactlyCurrentChunks ==
    /\ \A w \in Workers :
          (pc[w] = "done" /\ result[w] = "built") => coll = BagOf(ChunksOf(texts[w]))
    /\ \A w \in Workers :
          (pc[w] = "done" /\ result[w] = "ingested")
          => \A a \in AgentIds : agentStore[a] = (IF a \in AgentsOf(texts[w]) THEN texts[w] ELSE 0)

\* C7: an error of the embedding capability inside a rebuild leaves the call
\* as an exception; no handle is returned.
C7_EmbedErrorPropagates ==
    \A w \in Workers :
        (pc[w] = "done" /\ "embed_raised" \in events[w]) => result[w] = "raised"

C7_Witness ==
    \E w \in Workers :
        EnsureDone(w) /\ "embed_raised" \in events[w] /\ indexCalls[w] = 1

(* ========================= claims on the ranking ======================= *)
\* 1-based positions, in the whole list of hits, of the hits of a server
Positions(name) == {r \in 1..Len(docs) : docs[r] = name}

RECURSIVE SumRecip(_)
\* sum of 1/r over the positions in R, as a multiple of 1/Den
SumRecip(R) ==
    IF R = {} THEN 0
    ELSE LET r == CHOOSE x \in R : TRUE IN (Den \div r) + SumRecip(R \ {r})

FirstPos(name) == CHOOSE r \in Positions(name) : \A q \in Positions(name) : r <= q

NamedServers == {n \in ServerNames : Positions(n) # {}}

\* C8 as stated: the score of every returned server is exactly the sum of
\* 1/rank over its hits, rank being the position in the whole list; [A, B, A]
\* puts A before B.
C8_ScoreIsReciprocalRankSum ==
    rpc = "ranked" =>
        /\ \A i \in 1..Len(ranked) :
              ranked[i].score * Den = SumRecip(Positions(ranked[i].server)) * 10000
        /\ (docs = <<"A", "B", "A">> /\ top_servers >= 2)
              => (ranked[1].server = "A" /\ ranked[2].server = "B")

\* C8 amended: the score of every returned server is the sum of 1/rank over
\* its hits (rank in the whole list) rounded to four decimals; [A, B, A] gives
\* A 1.3333 and B 0.5, A first.
C8_ScoreIsRoundedReciprocalRankSum ==
    rpc = "ranked" =>
        /\ \A i \in 1..Len(ranked) :
              LET exact == SumRecip(Positions(ranked[i].server)) * 10000
                  got == ranked[i].score * Den
              IN  2 * (got - exact) <= Den /\ 2 * (exact - got) <= Den
        /\ (docs = <<"A", "B", "A">> /\ top_servers >= 2)
              => ranked = <<[server |-> "A", score |-> 13333], [server |-> "B", score |-> 5000]>>

C8_Witness ==
    rpc = "ranked" /\ docs = <<"A", "B", "A">> /\ top_servers = 2 /\ Len(ranked) = 2

\* a goes before b: higher sum, or the same sum and an earlier first hit
Before(a, b) ==
    \/ SumRecip(Positions(a)) > SumRecip(Positions(b))
    \/ SumRecip(Positions(a)) = SumRecip(Positions(b)) /\ FirstPos(a) < FirstPos(b)

\* C9: the returned list is the first top_servers servers in descending order
\* of accumulated score, servers of equal score in the order of their first
\* hits.
C9_TopNStableOrder ==
    rpc = "ranked" =>
        LET kept == {ranked[i].server : i \in 1..Len(ranked)} IN
        /\ Len(ranked) = (IF top_servers < Cardinality(NamedServers)
                          THEN top_servers ELSE Cardinality(NamedServers))
        /\ kept \subseteq NamedServers
        /\ \A i, j \in 1..Len(ranked) : i < j => Before(ranked[i].server, ranked[j].server)
        /\ \A n \in NamedServers \ kept : \A k \in kept : Before(k, n)

C9_Witness ==
    /\ rpc = "ranked" /\ Len(ranked) >= 2
    /\ SumRecip(Positions(ranked[1].server)) = SumRecip(Positions(ranked[2].server))
    /\ Cardinality(NamedServers) > top_servers

\* C10: a hit without server_name (missing or empty) adds to no score and
\* names no entry, and the hits behind it keep their ranks: every server's
\* accumulated score is the sum of 1/position over its own hits, positions
\* counted with the discarded hits.
C10_UnnamedHitsDiscarded ==
    rpc = "ranked" =>
        /\ \A i \in 1..Len(ranked) : ranked[i].server \in ServerNames
        /\ \A i \in 1..Len(grouped.order) : grouped.order[i] \in NamedServers
        /\ \A n \in ServerNames :
              /\ grouped.score[n] = SumRecip(Positions(n))
              /\ grouped.count[n] = Cardinality(Positions(n))

C10_Witness ==
    /\ rpc = "ranked" /\ Len(docs) >= 3
    /\ docs[1] = Missing /\ docs[2] = "" /\ docs[3] \in ServerNames
    /\ Len(ranked) >= 1 /\ grouped.score[docs[3]] = Den \div 3

(* ==================== claims on the description text =================== *)

\* the characters of s that are not whitespace, in order
NonWs(s) == SelectSeq(s, LAMBDA c : c \notin Whitespace)

\* the end of the tag that starts at i: "<", an optional "/", a name, an
\* optional "/", ">"; 0 when no tag starts there
TagEndAt(s, i) ==
    IF s[i] # "<" THEN 0
    ELSE LET B == {p \in (i + 1)..Len(s) : s[p] \in {"<", ">"}}
         IN IF B = {} THEN 0
            ELSE LET p == CHOOSE x \in B : \A y \in B : x <= y
                     name == {k \in (i + 1)..(p - 1) : s[k] # "/"}
                 IN IF /\ s[p] = ">"
                       /\ name # {}
                       /\ \A k \in (i + 1)..(p - 1) : s[k] = "/" => k \in {i + 1, p - 1}
                       /\ ~(s[i + 1] = "/" /\ s[p - 1] = "/")
                    THEN p ELSE 0

\* s with every tag replaced by a space
RECURSIVE Untag(_, _)
Untag(s, i) ==
    IF i > Len(s) THEN <<>>
    ELSE IF TagEndAt(s, i) = 0 THEN <<s[i]>> \o Untag(s, i + 1)
    ELSE <<" ">> \o Untag(s, TagEndAt(s, i) + 1)

\* nesting depth after reading s from i at depth d; -1 once a closing tag has
\* no opening tag or a "<" or ">" stands outside every tag
RECURSIVE Depth(_, _, _)
Depth(s, i, d) ==
    IF i > Len(s) THEN d
    ELSE IF TagEndAt(s, i) = 0
         THEN IF s[i] \in {"<", ">"} THEN -1 ELSE Depth(s, i + 1, d)
    ELSE IF s[i + 1] = "/"
         THEN IF d = 0 THEN -1 ELSE Depth(s, TagEndAt(s, i) + 1, d - 1)
    ELSE IF s[TagEndAt(s, i) - 1] = "/" THEN Depth(s, TagEndAt(s, i) + 1, d)
    ELSE Depth(s, TagEndAt(s, i) + 1, d + 1)

\* the markup of s is well formed: paired tags properly nested, self-closing
\* tags anywhere, no other angle bracket
WellFormed(s) == Depth(s, 1, 0) = 0

Sanitized == tpc \in {"sanitized", "summarized"}

\* C13: for a description with well-formed markup,
\* sanitize_description returns the text outside the tags with every tag
\* removed (paired, nested, self-closing alike), whitespace runs collapsed to
\* one space and the ends trimmed; "<p>Hello <b>world</b></p>" gives
\* "Hello world".
C13_SanitizeKeepsText ==
    (Sanitized /\ WellFormed(desc)) =>
        /\ NonWs(clean_desc) = NonWs(Untag(desc, 1))
        /\ \A i \in 1..Len(clean_desc) :
              clean_desc[i] \in Whitespace =>
                  /\ 1 < i /\ i < Len(clean_desc)
                  /\ clean_desc[i - 1] \notin Whitespace
        /\ (desc = HelloWorld => clean_desc = <<"a", " ", "a">>)

Prefix(s, n) == SubSeq(s, 1, IF n < Len(s) THEN n ELSE Len(s))

\* the index of the first sentence-ending punctuation that whitespace follows
SentenceEnds(s) == {i \in 1..(Len(s) - 1) : s[i] \in Punctuation /\ s[i + 1] \in Whitespace}

FirstSentenceOf(s) ==
    IF SentenceEnds(s) = {} THEN s
    ELSE SubSeq(s, 1, CHOOSE i \in SentenceEnds(s) : \A j \in SentenceEnds(s) : i <= j)

NoPunctuation(s) == \A i \in 1..Len(s) : s[i] \notin Punctuation

\* t is s without its leading and trailing whitespace
IsTrimOf(t, s) ==
    /\ t = <<>> \/ (t[1] \notin Whitespace /\ t[Len(t)] \notin Whitespace)
    /\ \E a \in 0..Len(s) :
          /\ a + Len(t) <= Len(s)
          /\ t = SubSeq(s, a + 1, a + Len(t))
          /\ \A i \in 1..Len(s) : (i <= a \/ i > a + Len(t)) => s[i] \in Whitespace

\* C14 as stated: summarize_intent returns the fallback for an empty
\* description and otherwise the first sentence cut to the limit; without
\* sentence punctuation it returns the first limit characters; the result is
\* never longer than the limit.
C14_FirstSentenceTruncated ==
    tpc = "summarized" =>
        /\ desc = <<>> => intent = fallback
        /\ desc # <<>> => intent = Prefix(FirstSentenceOf(desc), HeadLimit)
        /\ (desc # <<>> /\ NoPunctuation(desc)) => intent = Prefix(desc, HeadLimit)
        /\ Len(intent) <= HeadLimit

\* C14 amended: summarize_intent returns the fallback for an empty
\* description and otherwise the first sentence cut to the limit and then
\* trimmed of surrounding whitespace; without sentence punctuation that is the
\* trimmed first limit characters; for a non-empty description the result is
\* never longer than the limit.
C14_FirstSentenceTruncatedTrimmed ==
    tpc = "summarized" =>
        /\ desc = <<>> => intent = fallback
        /\ desc # <<>> =>
              /\ IsTrimOf(intent, Prefix(FirstSentenceOf(desc), HeadLimit))
              /\ Len(intent) <= HeadLimit
        /\ (desc # <<>> /\ NoPunctuation(desc)) => IsTrimOf(intent, Prefix(desc, HeadLimit))

\* a description longer than its first sentence, whose cut first sentence
\* ends in whitespace that the result no longer has
C14_Witness ==
    /\ tpc = "summarized"
    /\ FirstSentenceOf(desc) # desc
    /\ Len(FirstSentenceOf(desc)) > HeadLimit
    /\ intent # Prefix(FirstSentenceOf(desc), HeadLimit)
    /\ intent # <<>>

(* ====================== claims on the chunk builder ==================== *)

\* the (server, tool) positions of a catalog in iteration order
RECURSIVE SourcePairs(_, _)
SourcePairs(cat, i) ==
    IF i > Len(cat) THEN <<>>
    ELSE [j \in 1..Len(cat[i].tools) |-> <<i, j>>] \o SourcePairs(cat, i + 1)

ServerOfChunk(i) == catalog_json[SourcePairs(catalog_json, 1)[i][1]]
ToolOfChunk(i) == ServerOfChunk(i).tools[SourcePairs(catalog_json, 1)[i][2]]

MissingOrEmpty(v) == v \in {Absent, None, <<>>}

\* C11: every chunk carries a non-empty server_name: a server whose name is
\* missing or empty gets its catalog key, and a tool whose name is missing or
\* empty gets its slug.
C11_ChunkServerNameNonEmpty ==
    bpc = "built" =>
        /\ Len(chunks) = Len(SourcePairs(catalog_json, 1))
        /\ \A i \in 1..Len(chunks) :
              /\ ~MissingOrEmpty(chunks[i].server_name)
              /\ MissingOrEmpty(ServerOfChunk(i).name) =>
                    chunks[i].server_name = ServerOfChunk(i).key
              /\ MissingOrEmpty(ToolOfChunk(i).name) =>
                    chunks[i].tool_name = ToolOfChunk(i).slug

\* the j-th smallest member of a set of positions
NthOf(S, j) == CHOOSE k \in S : Cardinality({m \in S : m <= k}) = j

LiteralTrue(ps) == {k \in 1..Len(ps) : ps[k].required = "True"}

NameText(param) == IF param.name = Absent THEN <<>> ELSE param.name

NameOf(tool) == Lower(OrEmpty(tool.name))
DescriptionOf(tool) == Lower(OrEmpty(tool.description))
TokenAt(t) == Lower(user_task[t])

KeywordPoints(tool) ==
    2 * Cardinality({k \in 1..Len(Keywords) : Contains(NameOf(tool), Keywords[k])})
    + Cardinality({k \in 1..Len(Keywords) : Contains(DescriptionOf(tool), Keywords[k])})

\* +2 per query token in the name, +1 per query token in the description
ScoreAsStated(tool) ==
    KeywordPoints(tool)
    + 2 * Cardinality({t \in 1..Len(user_task) : Contains(NameOf(tool), TokenAt(t))})
    + Cardinality({t \in 1..Len(user_task) : Contains(DescriptionOf(tool), TokenAt(t))})

\* +2 per query token in the name, +1 per query token in the description only
ScoreNameFirst(tool) ==
    KeywordPoints(tool)
    + 2 * Cardinality({t \in 1..Len(user_task) : Contains(NameOf(tool), TokenAt(t))})
    + Cardinality({t \in 1..Len(user_task) :
                     /\ ~Contains(NameOf(tool), TokenAt(t))
                     /\ Contains(DescriptionOf(tool), TokenAt(t))})

NoFastPath == \A i \in 1..Len(tools) : ~Contains(NameOf(tools[i]), FastPathToken)

\* C15 as stated: without a fast-path name, the first tool of maximal score is
\* returned, the score being +2/+1 per action keyword in name/description and
\* +2/+1 per query token in name/description; none for an empty list, the
\* first tool when all score zero.
C15_FirstMaxScore ==
    (kpc = "chosen" /\ NoFastPath) =>
        /\ tools = <<>> => chosen = 0
        /\ tools # <<>> =>
              /\ chosen \in 1..Len(tools)
              /\ \A j \in 1..Len(tools) : ScoreAsStated(tools[j]) <= ScoreAsStated(tools[chosen])
              /\ \A j \in 1..(chosen - 1) : ScoreAsStated(tools[j]) < ScoreAsStated(tools[chosen])
              /\ (\A j \in 1..Len(tools) : ScoreAsStated(tools[j]) = 0) => chosen = 1

\* C15 amended: the same, a query token counting +2 when it is found in the
\* name and +1 only when it is found in the description but not in the name.
C15_FirstMaxScoreNameFirst ==
    (kpc = "chosen" /\ NoFastPath) =>
        /\ tools = <<>> => chosen = 0
        /\ tools # <<>> =>
              /\ chosen \in 1..Len(tools)
              /\ \A j \in 1..Len(tools) : ScoreNameFirst(tools[j]) <= ScoreNameFirst(tools[chosen])
              /\ \A j \in 1..(chosen - 1) : ScoreNameFirst(tools[j]) < ScoreNameFirst(tools[chosen])
              /\ (\A j \in 1..Len(tools) : ScoreNameFirst(tools[j]) = 0) => chosen = 1

\* two tools tie at a positive score, one of them through a token that is in
\* its name and in its description, and the first is returned
C15_Witness ==
    /\ kpc = "chosen"
    /\ NoFastPath
    /\ Len(tools) = 2
    /\ chosen = 1
    /\ ScoreNameFirst(tools[1]) = ScoreNameFirst(tools[2])
    /\ ScoreNameFirst(tools[1]) > 0
    /\ ScoreAsStated(tools[2]) > ScoreNameFirst(tools[2])

\* C16: when some tool name contains "create:pages" (case-insensitively), the
\* first such tool in list order is returned, whatever the scores are.
C16_FastPathFirst ==
    (kpc = "chosen" /\ ~NoFastPath) =>
        /\ chosen \in 1..Len(tools)
        /\ Contains(NameOf(tools[chosen]), FastPathToken)
        /\ \A j \in 1..(chosen - 1) : ~Contains(NameOf(tools[j]), FastPathToken)

\* the marked tool is returned although an earlier tool scores higher
C16_Witness ==
    /\ kpc = "chosen"
    /\ chosen = 2
    /\ Contains(NameOf(tools[2]), FastPathToken)
    /\ ScoreNameFirst(tools[1]) > ScoreNameFirst(tools[2])

(* ===================== claims on argument planning ===================== *)

\* the JSON text of a value
RECURSIVE PrintValue(_)
RECURSIVE PrintItems(_, _)
RECURSIVE PrintMembers(_, _)

PrintValue(v) ==
    IF v.t = "string" THEN <<v.v>>
    ELSE IF v.t = "number" THEN <<"1">>
    ELSE IF v.t = "array" THEN <<"[">> \o PrintItems(v.items, 1) \o <<"]">>
    ELSE <<"{">> \o PrintMembers(v.members, 1) \o <<"}">>

PrintItems(items, i) ==
    IF i > Len(items) THEN <<>>
    ELSE PrintValue(items[i]) \o (IF i < Len(items) THEN <<",">> ELSE <<>>)
         \o PrintItems(items, i + 1)

PrintMembers(members, i) ==
    IF i > Len(members) THEN <<>>
    ELSE <<members[i].k, ":">> \o PrintValue(members[i].v)
         \o (IF i < Len(members) THEN <<",">> ELSE <<>>)
         \o PrintMembers(members, i + 1)

\* no quoted string occurs twice in the text, so no key is repeated
NoKeyTwice(tk) == \A i, j \in 1..Len(tk) : (tk[i] \in StringTokens /\ tk[i] = tk[j]) => i = j

TypeOk(v, type) ==
    IF type = "string" THEN v.t = "string"
    ELSE /\ v.t = "array"
         /\ Len(v.items) >= 1
         /\ \A i \in 1..Len(v.items) : v.items[i].t = "string"

\* the object satisfies every keyword of the schema
Conforms(obj, schema) ==
    /\ schema.type \in {NoType, "object"}
    /\ \A i \in 1..Len(schema.required) : HasMember(obj, schema.required[i])
    /\ \A m \in 1..Len(obj.members), q \in 1..Len(schema.properties) :
          schema.properties[q].k = obj.members[m].k =>
              TypeOk(obj.members[m].v, schema.properties[q].type)
    /\ ~schema.additional =>
          \A m \in 1..Len(obj.members) :
              \E q \in 1..Len(schema.properties) : schema.properties[q].k = obj.members[m].k

IsJsonObjectText(tk) == json_loads(tk).ok /\ json_loads(tk).val.t = "object"

\* the failures the spec calls PlanningError: the raises of _parse_json and
\* of _invoke_llm on a response without text
PlanningErrors ==
    {Raised("ValueError", <<"Model output was not valid JSON">>),
     Raised("ValueError", <<"Model output must be a JSON object">>),
     Raised("RuntimeError", <<"OpenAI response was empty">>)}

\* the failure the spec calls SchemaValidationError: the raise of line 156,
\* its message followed by the validator's
IsSchemaValidationError(r) ==
    /\ r.kind = "raise"
    /\ r.exc = "ValueError"
    /\ Len(r.msg) = 3
    /\ r.msg[1] = "Model output failed schema validation"
    /\ r.msg[2] \in {"type", "items", "minItems", "required", "additional"}

\* plan_arguments is over and the model did answer
Answered == ppc = "done" /\ tool_schema.kind = "dict" /\ plan_result # Raised("APIError", <<"request failed">>)

\* C17: plan_arguments returns only a JSON object that the response spells and
\* that validates against the schema, and returns exactly it; a response that
\* is not JSON or not a JSON object raises a PlanningError; a JSON object that
\* violates the schema raises a SchemaValidationError with the validator's
\* message.
C17_PlanReturnsOnlyValid ==
    Answered =>
        /\ plan_result.kind = "return" =>
              /\ plan_result.value.t = "object"
              /\ NoKeyTwice(raw_json) => PrintValue(plan_result.value) = raw_json
              /\ Conforms(plan_result.value, tool_schema)
        /\ ~IsJsonObjectText(raw_json) => plan_result \in PlanningErrors
        /\ (IsJsonObjectText(raw_json) /\ ~Conforms(json_loads(raw_json).val, tool_schema)) =>
              IsSchemaValidationError(plan_result)
        /\ (IsJsonObjectText(raw_json) /\ Conforms(json_loads(raw_json).val, tool_schema)) =>
              plan_result = Returned(json_loads(raw_json).val)

\* the spec's example: {"title": "..."} against the schema that requires
\* title and content
C17_Witness ==
    /\ ppc = "done"
    /\ tool_schema = SmokeSchema
    /\ raw_json = <<"{", "title", ":", "s", "}">>
    /\ plan_result = Raised("ValueError", <<"Model output failed schema validation",
                                            "required", "content">>)

\* the conforming answer is returned
C17_WitnessReturn ==
    /\ ppc = "done"
    /\ tool_schema = SmokeSchema
    /\ plan_result.kind = "return"
    /\ raw_json = <<"{", "title", ":", "s", ",", "content", ":", "[", "s", "]", "}">>

\* C18 as stated: every finished plan_arguments call has invoked the language
\* model exactly once.
C18_ExactlyOneInvocation == ppc = "done" => llm_calls = 1

\* C18 amended: a plan_arguments call never invokes the language model more
\* than once, whatever fails; it has invoked it exactly once when it ends on a
\* schema that is a JSON object, and not at all when the schema is rejected.
C18_AtMostOneInvocation ==
    /\ llm_calls <= 1
    /\ ppc = "done" => llm_calls = (IF tool_schema.kind = "dict" THEN 1 ELSE 0)

\* a call that failed to parse the answer and made one request
C18_Witness ==
    /\ ppc = "done"
    /\ plan_result = Raised("ValueError", <<"Model output was not valid JSON">>)
    /\ llm_calls = 1

(* ================== claims on the workflow orchestrator ================ *)

ToolServerCalls == {"mcp.connect", "mcp.connect failed", "list_tools", "call_tool", "mcp.close"}

NoToolServerCall == \A i \in 1..Len(net) : net[i] \notin ToolServerCalls

\* no endpoint derives from the link: it is missing or empty, or nothing but
\* slashes is left of it without its surrounding blanks and the /server prefix
Underivable(link) ==
    \/ link \in {None, <<>>}
    \/ LET core == Strip(link)
           k == IF StartsWith(core, <<"/", "server">>) THEN 2 ELSE 0
       IN \A i \in (k + 1)..Len(core) : core[i] = "/"

\* the link is missing, empty or blank
Blank(link) == link = None \/ \A i \in 1..Len(link) : link[i] \in Whitespace

ViaExecute == routed \in {"direct", "mcp"}

\* C19 as stated: execute with mode "direct", or with a server that has no
\* derivable endpoint, never reaches a tool server (no connection, no
\* list_tools, no call_tool): it takes the direct chat completion, and the
\* envelope it returns has no mcp_base_url.
C19_DirectNeverConnects ==
    (ViaExecute /\ (mode = "direct" \/ Underivable(child_link))) =>
        /\ NoToolServerCall
        /\ routed = "direct"
        /\ (fpc = "done" /\ envelope.kind = "return") =>
              (envelope.mcp_base_url = None /\ envelope.via = "direct")

\* C19 amended: execute with mode "direct", or with a catalog link that is
\* missing, empty or blank, never reaches a tool server: it takes the direct
\* chat completion, and the envelope it returns has no mcp_base_url.
C19_DirectOrBlankNeverConnects ==
    (ViaExecute /\ (mode = "direct" \/ Blank(child_link))) =>
        /\ NoToolServerCall
        /\ routed = "direct"
        /\ (fpc = "done" /\ envelope.kind = "return") =>
              (envelope.mcp_base_url = None /\ envelope.via = "direct")

\* a blank link without the direct mode ends in the direct answer
C19_Witness ==
    /\ fpc = "done"
    /\ mode # "direct"
    /\ child_link = <<" ">>
    /\ envelope = Envelope(None, "direct")
    /\ net = <<"chat.completions.create">>

OnToolPath == routed \in {"mcp", "mcp_entry"}

\* the failures the spec calls EndpointDerivationError: the raises of
\* derive_mcp_url and of extract_server_slug
DerivationErrors ==
    {Failure("ValueError", "Child link is required to derive the MCP URL."),
     Failure("ValueError", "Unable to derive MCP path from child link"),
     Failure("ValueError", "Child link is required to derive the server slug."),
     Failure("ValueError", "Unable to derive server slug from child link")}

\* C20 as stated: on the tool path a link no endpoint derives from ends the
\* execution with the derivation error, and no network call is ever made.
C20_DerivationErrorBeforeNetwork ==
    (OnToolPath /\ Underivable(child_link)) =>
        /\ net = <<>>
        /\ fpc \in {"mcp", "done"}
        /\ fpc = "done" => envelope \in DerivationErrors

\* C20 amended: the same when no endpoint override is supplied.
C20_DerivationErrorBeforeNetworkNoOverride ==
    (OnToolPath /\ Underivable(child_link) /\ override = None) =>
        /\ net = <<>>
        /\ fpc \in {"mcp", "done"}
        /\ fpc = "done" => envelope \in DerivationErrors

\* the bare prefix is rejected before anything is sent
C20_Witness ==
    /\ routed = "mcp"
    /\ fpc = "done"
    /\ child_link = <<"/", "server", "/">>
    /\ override = None
    /\ envelope = Failure("ValueError", "Unable to derive MCP path from child link")
    /\ net = <<>>

\* the slashes-trimmed rest of a link: what is left of the link, taken
\* without its surrounding blanks, once the leading /server and the slashes
\* at both ends are removed
IsRemainingPath(link, r) ==
    LET core == Strip(link)
        k == IF StartsWith(core, <<"/", "server">>) THEN 2 ELSE 0
    IN /\ r # <<>>
       /\ r[1] # "/"
       /\ r[Len(r)] # "/"
       /\ \E a \in k..Len(core) :
             /\ a + Len(r) <= Len(core)
             /\ SubSeq(core, a + 1, a + Len(r)) = r
             /\ \A i \in ((k + 1)..a) \cup ((a + Len(r) + 1)..Len(core)) : core[i] = "/"

DeriveAttempted == OnToolPath /\ override = None /\ fpc # "mcp"

\* C21: the endpoint derived from a catalog link is
\* "https://server.smithery.ai/<remaining path>/mcp", where the remaining
\* path is the link without the /server prefix and the surrounding slashes
\* ("/server/n" gives ".../n/mcp"); a link that is empty, or of which nothing
\* remains, raises the derivation error and no URL is produced.
C21_DeriveEndpoint ==
    DeriveAttempted =>
        IF Underivable(child_link)
        THEN /\ base_url = None
             /\ envelope \in
                   {Failure("ValueError", "Child link is required to derive the MCP URL."),
                    Failure("ValueError", "Unable to derive MCP path from child link")}
        ELSE /\ base_url # None
             /\ Len(base_url) >= 3
             /\ base_url[1] = "https://server.smithery.ai/"
             /\ base_url[Len(base_url)] = "/mcp"
             /\ IsRemainingPath(child_link, SubSeq(base_url, 2, Len(base_url) - 1))
             /\ child_link = <<"/", "server", "/", "n">> =>
                   base_url = <<"https://server.smithery.ai/", "n", "/mcp">>

\* "/server/n/" was derived to ".../n/mcp"
C21_Witness ==
    /\ DeriveAttempted
    /\ child_link = <<"/", "server", "/", "n">>
    /\ base_url = <<"https://server.smithery.ai/", "n", "/mcp">>

\* "/server//" was rejected
C21_WitnessRaise ==
    /\ DeriveAttempted
    /\ child_link = <<"/", "server", "/", "/">>
    /\ base_url = None
    /\ envelope = Failure("ValueError", "Unable to derive MCP path from child link")

\* the turns of the history that reach the block: the non-blank ones among
\* the last HistoryLimit, by position
KeptTurns ==
    {i \in 1..Len(history) :
        /\ i > Len(history) - HistoryLimit
        /\ \E p \in 1..Len(history[i].content) : history[i].content[p] \notin Whitespace}

\* the j-th smallest position of a set of positions
NthPosition(P, j) == CHOOSE i \in P : Cardinality({q \in P : q <= i}) = j

\* a rendered line is the turn's label followed by its trimmed content
LineOfTurn(line, turn) ==
    /\ Len(line) >= 2
    /\ line[1] \in {"User: ", "Assistant: "}
    /\ line[1] = "User: " <=> Lower(Strip(turn.role)) = <<"user">>
    /\ IsTrimOf(SubSeq(line, 2, Len(line)), turn.content)

C25_WitnessBlank ==
    /\ routed = "mcp"
    /\ Len(history) = HistoryLimit + 1
    /\ KeptTurns = {}
    /\ sent = <<notion_instruction>>

(* ================= claims on the direct-answer option ================== *)

DirectAt(l) == {i \in 1..Len(l) : l[i].mode = "direct"}

\* C26: add_direct_answer_option returns the results in their order followed
\* by one direct-answer entry (mode "direct", empty child_link); a list that
\* already holds a direct-mode entry comes back unchanged; so a search result
\* it was applied to any number of times holds exactly one direct-answer
\* option, and holds it last.
C26_OneDirectOptionLast ==
    applied >= 1 =>
        /\ DirectAt(before) = {} =>
              /\ Len(options) = Len(before) + 1
              /\ SubSeq(options, 1, Len(before)) = before
              /\ options[Len(options)].mode = "direct"
              /\ options[Len(options)].child_link = ""
        /\ DirectAt(before) # {} => options = before
        /\ DirectAt(results) = {} =>
              /\ DirectAt(options) = {Len(options)}
              /\ SubSeq(options, 1, Len(results)) = results
              /\ Len(options) = Len(results) + 1

\* the search path: async_rag_search, then the /api/search handler
C26_Witness ==
    /\ applied = 2
    /\ Len(results) = 2
    /\ DirectAt(results) = {}
    /\ before = results \o <<direct_entry>>
    /\ options = before

(* ============ claims on rebuilds that fail (index manager) ============= *)

\* the worker's previous call ran a rebuild that deleted the old collection
\* and then failed in the embed or the persist step
FailedAfterDelete(w) ==
    /\ entry[w].last \cap {"embed_raised", "add_raised", "persist_raised"} # {}
    /\ "delete_raised" \notin entry[w].last
    /\ entry[w].lastTexts # 0

\* C29: after a rebuild that failed in the embed or persist step, with the
\* old collection already deleted, the next call with force_reindex = false
\* and the catalog unchanged does not take the reuse branch on the collection
\* the failed rebuild left behind (a store freshly downloaded from the bucket
\* is another collection).
C29_NoReuseAfterFailedRebuild ==
    \A w \in Workers :
        (EnsureDone(w) /\ ~force_reindex[w] /\ FailedAfterDelete(w)
            /\ entry[w].catalog = entry[w].lastTexts /\ "synced" \notin events[w])
        => result[w] # "opened"

\* the loading step of a rebuild by worker w ends the call with the
\* catalog's error
CatalogFailure(w) ==
    /\ pc[w] = "ix_load"
    /\ pc'[w] = "done"

InTrace(e) == \E i \in 1..Len(trace) : trace[i] = e

\* the first position of e in the trace, 0 if it is not there
TraceAt(e) ==
    IF InTrace(e) THEN CHOOSE i \in 1..Len(trace) : trace[i] = e /\ \A j \in 1..(i - 1) : trace[j] # e
    ELSE 0

\* list_tools came back with an empty list
ListedEmpty == InTrace("listed") /\ tools = <<>>

\* no tool selected, no arguments planned, no call_tool
NothingAfterListing ==
    /\ chosen = 0
    /\ ~InTrace("choose")
    /\ ppc = "off"
    /\ llm_calls = 0
    /\ called = <<>>
    /\ ~InTrace("call_tool")

NoToolsOutcome ==
    /\ IF dry_run THEN run_result = NoToolsReport
       ELSE run_result = Raised("RuntimeError", <<"No tools available from selected agent.">>)
    /\ NothingAfterListing

\* C24 as stated, for every path of run_async: once list_tools has returned an
\* empty list, a finished dry run has returned the report with an empty tools
\* list and the message "No tools available", a finished real run has raised
\* the no-tools error, and no tool was selected, planned for or called.
C24_EmptyListing_AnyPath ==
    (apc = "done" /\ ListedEmpty) => NoToolsOutcome

\* C24 on the generic (non-Notion) path: once list_tools has returned an empty
\* list, a finished dry run has returned the report with an empty tools list
\* and the message "No tools available", a finished real run has raised the
\* no-tools error, and in neither case was a tool selected, were arguments
\* planned or was call_tool invoked.
C24_EmptyListing ==
    (apc = "done" /\ ListedEmpty /\ ~is_notion) => NoToolsOutcome

C24_Witness ==
    /\ apc = "done"
    /\ ListedEmpty
    /\ ~is_notion
    /\ dry_run
    /\ run_result = NoToolsReport

C24_WitnessRaise ==
    /\ apc = "done"
    /\ ListedEmpty
    /\ ~is_notion
    /\ ~dry_run
    /\ run_result.kind = "raise"

\* C28: on the generic path call_tool is requested at most once, never in a
\* dry run, and only after list_tools returned a non-empty list, a tool with a
\* JSON Schema was chosen and plan_arguments returned arguments with no
\* validation error against that schema; the request carries that tool's name
\* and exactly those arguments.
C28_CallToolOnlyAfterPlan ==
    ~is_notion =>
        /\ Len(called) <= 1
        /\ called # <<>> =>
              /\ ~dry_run
              /\ tools # <<>>
              /\ chosen \in 1..Len(tools)
              /\ SchemaOf(tools[chosen]).kind = "dict"
              /\ tool_schema = SchemaOf(tools[chosen])
              /\ plan_result = Returned(called[1].arguments)
              /\ iter_errors(tool_schema, called[1].arguments) = <<>>
              /\ called[1].name = tools[chosen].name
              /\ 0 < TraceAt("listed")
              /\ TraceAt("listed") < TraceAt("choose")
              /\ TraceAt("choose") < TraceAt("plan")
              /\ TraceAt("plan") < TraceAt("call_tool")

C28_Witness ==
    /\ ~is_notion
    /\ apc = "done"
    /\ Len(called) = 1
    /\ run_result.kind = "return"
    /\ called[1].arguments.members # <<>>

C28_WitnessDryRun ==
    /\ ~is_notion
    /\ apc = "done"
    /\ dry_run
    /\ run_result.kind = "return"
    /\ plan_result.kind = "return"
    /\ called = <<>>

\* C22: no execution ends with a connection still open, whatever the exit
\* path and the transport.
C22_ConnectionsReleased ==
    apc = "done" => \A i \in 1..Len(conns) : ~conns[i].open

(* ------------------------------ searches ------------------------------- *)

\* C27: a finished ranking/search call has returned a ranked list computed
\* from a similarity search that succeeded, or has raised: when the vector
\* store or the embedding provider failed during the search, the call raised.
C27_SearchReturnsOrRaises ==
    spc = "done" =>
        IF fault = "none" THEN search_out.kind = "return" ELSE search_out.kind = "raise"

(* ------------------------- concurrent requests ------------------------- *)

RebuildInProgress(w) == pc[w] \in {"ix_load", "ix_delete", "ix_add", "ix_persist"}

\* the delete step is behind, the persist step is not
BetweenDeleteAndPersist(w) == pc[w] \in {"ix_add", "ix_persist"}

\* a step in which w runs a similarity search on the directory: the probe of
\* ensure_vectordb or the search of the ranking
Reads(w) ==
    \/ pc[w] = "probe" /\ pc'[w] # "probe"
    \/ "searched" \notin events[w] /\ "searched" \in events'[w]

\* C23: at most one rebuild of the persist directory is in progress at any
\* time, and no similarity search reads the directory while another request is
\* between its rebuild's delete step and persist step, also when requests run
\* concurrently in worker threads.
C23_SingleWriterRebuild ==
    /\ [](\A v, w \in Workers : (RebuildInProgress(v) /\ RebuildInProgress(w)) => v = w)
    /\ [][\A w \in Workers :
            Reads(w) => \A v \in Workers \ {w} : ~BetweenDeleteAndPersist(v)]_vars

====
